---------------------------- MODULE Spec2Model ----------------------------
(***************************************************************************)
(* ThreadSchedule: the task scheduling and execution engine.               *)
(*                                                                         *)
(*   WorkStealingDeque      include/threadschedule/thread_pool.hpp         *)
(*   HighPerformancePool    include/threadschedule/thread_pool.hpp         *)
(*   FastThreadPool         include/threadschedule/thread_pool.hpp         *)
(*   ThreadPool             include/threadschedule/thread_pool.hpp         *)
(*   ScheduledThreadPoolT   include/threadschedule/scheduled_pool.hpp      *)
(*                                                                         *)
(* Every region the code runs under one std::lock_guard / std::unique_lock *)
(* is one atomic action; every access to a std::atomic outside a lock is   *)
(* an action of its own, so that the interleavings of the lock-free parts  *)
(* are all present.                                                        *)
(***************************************************************************)
EXTENDS Integers, Sequences, FiniteSets, TLC

(***************************************************************************)
(* Bounds of the model.                                                    *)
(***************************************************************************)
\* capacity_ of the deques of the model (DEFAULT_CAPACITY is 1024 in the code)
Capacity == 2
\* number of push calls that the owner of the stand-alone deque makes
MaxPush == 4

\* num_threads_ of the pools of the model
NumThreads == 2
\* capacity of each worker queue of the model's HighPerformancePool
PoolCapacity == 1
\* number of tasks handed to submit / submit_batch in one run
MaxTasks == 3
\* largest batch handed to submit_batch
MaxBatch == 2
\* number of shutdown() calls the owner makes (shutdown, then the destructor)
MaxShutdownCalls == 2

NoTask == 0

\* last tick of the clock of the scheduler
MaxTime == 3
\* number of schedule_at / schedule_periodic_after calls in one run
MaxHandles == 2
\* largest interval of a periodic entry, in ticks
MaxInterval == 2
\* longest range handed to parallel_for_each
MaxRange == 9
\* number of cancel() calls made on one handle and its copies
MaxCancels == 2
\* number of hand-overs of one entry that the model counts
MaxFirings == 4
\* number of closures the queue of the scheduler's pool holds in the runs
\* that have periodic entries of interval zero
MaxPoolQueue == 2
\* number of tasks submitted through a *WithErrors pool
MaxErrTasks == 3
\* number of callbacks registered with an ErrorHandler at one time
MaxCallbacks == 2
\* greatest number of worker threads of a pool whose task placement is followed
MaxQueues == 5
\* capacity of each worker buffer of that pool (1024 in the code)
PlaceCapacity == 2
\* greatest value of next_victim_ at which a call still begins
MaxVictim == 11
\* greatest number of tasks in one submit_batch of that pool
MaxPlaceBatch == 4
\* greatest number of worker threads of a pool given batches
MaxBatchQueues == 3
\* number of thread ids known to the model's ThreadRegistry
MaxTids == 2
\* number of control blocks handed to the model's ThreadRegistry
MaxBlocks == 2
\* number of calls made on the model's ThreadRegistry
MaxRegCalls == 5

(***************************************************************************)
(* State of the stand-alone WorkStealingDeque: one owner (push, pop) and   *)
(* several thieves (steal).                                                *)
(***************************************************************************)
VARIABLES
    dq,        \* the deque: buffer_, top_, bottom_
    d_next,    \* the next task the owner pushes (tasks are numbered 1, 2, ...)
    d_count,   \* d_count[t]: how many pop/steal calls have returned task t
    d_res,     \* the last call: who made it, which operation, its result
    d_size     \* the thread inside size() / empty(): its position, the top_ and
               \* bottom_ it has loaded, what the call returned

dvars == <<dq, d_next, d_count, d_res, d_size>>

(***************************************************************************)
(* State of one pool (HighPerformancePool, FastThreadPool or ThreadPool)   *)
(* with its worker threads, the threads that submit to it and the thread   *)
(* that owns it (wait_for_tasks, shutdown, destructor).                    *)
(***************************************************************************)
VARIABLES
    PoolType,         \* which of the three classes this pool is
    stop_,            \* std::atomic<bool> stop_
    worker_queues_,   \* HighPerformancePool: one WorkStealingDeque per worker
    overflow_tasks_,  \* HighPerformancePool: std::queue<Task> overflow_tasks_
    tasks_,           \* FastThreadPool, ThreadPool: std::queue<Task> tasks_
    next_victim_,     \* HighPerformancePool: std::atomic<size_t> next_victim_
    active_tasks_,    \* std::atomic<size_t> active_tasks_
    completed_tasks_, \* std::atomic<size_t> completed_tasks_
    stolen_tasks_,    \* HighPerformancePool: std::atomic<size_t> stolen_tasks_
    wk,               \* wk[w]: where worker thread w is in worker_function (and
                      \* whether a task it ran has raised)
    sub,              \* sub[s]: where submitting thread s is in submit / submit_batch
    main,             \* the owning thread: in wait_for_tasks or shutdown
    n_tasks,          \* number of tasks handed to submit / submit_batch so far
    tk                \* tk[t]: the completion handle of task t and what happened to t

pvars == <<PoolType, stop_, worker_queues_, overflow_tasks_, tasks_, next_victim_,
           active_tasks_, completed_tasks_, stolen_tasks_, wk, sub, main, n_tasks, tk>>

(***************************************************************************)
(* State of one ScheduledThreadPoolT<ThreadPool>: the timer thread         *)
(* (scheduler_loop), the time-ordered collection, the handles given out,   *)
(* the inner pool and the thread that shuts the scheduler down.            *)
(***************************************************************************)
VARIABLES
    now,               \* std::chrono::steady_clock::now(), in ticks
    scheduled_tasks_,  \* the std::multimap, as the sequence of its entries in key order
    next_task_id_,     \* std::atomic<uint64_t> next_task_id_
    scheduler_stop_,   \* ScheduledThreadPoolT::stop_
    handles,           \* handles[id]: the cancelled flag shared by handle and entry,
                       \* and what has happened to the entry
    timer,             \* where scheduler_thread_ is in scheduler_loop
    pool_,             \* the inner pool: its queue of submitted closures, its stop flag,
                       \* the entry whose task its worker is running (0: none)
    closer             \* the thread in ScheduledThreadPoolT::shutdown

svars == <<now, scheduled_tasks_, next_task_id_, scheduler_stop_, handles, timer,
           pool_, closer>>

(***************************************************************************)
(* State of one parallel_for_each call (HighPerformancePool or ThreadPool).*)
(***************************************************************************)
VARIABLES
    pfe        \* the call: its range, its loop position, the chunk tasks it has
               \* submitted, those that have run, how often fn was applied

fvars == <<pfe>>

(***************************************************************************)
(* State of a *WithErrors pool: its ErrorHandler, the wrapped tasks given  *)
(* to the pool it owns, and the worker threads that run them.              *)
(***************************************************************************)
VARIABLES
    callbacks_,      \* ErrorHandler::callbacks_: the callbacks in registration order
    error_count_,    \* ErrorHandler::error_count_
    handler_mutex_,  \* ErrorHandler::mutex_: the worker that holds it (-1: free)
    wrapped,         \* per task: its body, its completion handle, the callbacks
                     \* invoked for it, how often it was counted
    pool_queue,      \* the wrapped tasks the owned pool holds
    ew               \* per worker thread: its position inside a wrapped task

evars == <<callbacks_, error_count_, handler_mutex_, wrapped, pool_queue, ew>>

(***************************************************************************)
(* State of a HighPerformancePool of any number of worker threads, as far  *)
(* as the placement of submitted tasks goes: the worker buffers, the       *)
(* overflow queue, next_victim_ and the thread inside submit/submit_batch. *)
(***************************************************************************)
VARIABLES
    place      \* num_threads_, worker_queues_, overflow_tasks_, next_victim_ and
               \* the call in progress (or the last one, once it has returned)

gvars == <<place>>

(***************************************************************************)
(* State of one ThreadRegistry (thread_registry.hpp).                      *)
(***************************************************************************)
VARIABLES
    threads_,       \* std::unordered_map<Tid, RegisteredThreadInfo> threads_
    onRegister_,    \* whether a callback is set in onRegister_
    onUnregister_,  \* whether a callback is set in onUnregister_
    reg_log         \* the calls made so far: their number, the last call and its
                    \* arguments, how often each callback was invoked

rvars == <<threads_, onRegister_, onUnregister_, reg_log>>

vars == <<dvars, pvars, svars, fvars, evars, gvars, rvars>>

Workers == 0 .. NumThreads - 1
\* the threads that call submit / submit_batch
Submitters == DOMAIN sub
Tasks == 1 .. MaxTasks
PoolTypes == {"HighPerformancePool", "FastThreadPool", "ThreadPool"}

Min(a, b) == IF a < b THEN a ELSE b

Thieves == {"thief1", "thief2"}

(***************************************************************************)
(* WorkStealingDeque<T>                                                    *)
(***************************************************************************)
\* size_t subtraction: wraps around below zero (size_t modelled 16 bits wide)
SizeSub(a, b) == (a - b) % (2 ^ 16)

\* WorkStealingDeque(capacity): an empty buffer_, top_ = bottom_ = 0
EmptyDeque(capacity) ==
    [buffer |-> [i \in 0 .. capacity - 1 |-> NoTask], top |-> 0, bottom |-> 0,
     capacity |-> capacity]

\* push without its "queue full" test
push_unchecked(d, item) ==
    [ok |-> TRUE,
     dq |-> [d EXCEPT !.buffer[d.top % d.capacity] = item, !.top = d.top + 1]]

\* a push that writes the slot before its "queue full" test
push_clobber(d, item) ==
    IF SizeSub(d.top, d.bottom) >= d.capacity
    THEN [ok |-> FALSE, dq |-> [d EXCEPT !.buffer[d.top % d.capacity] = item]]
    ELSE [ok |-> TRUE,
          dq |-> [d EXCEPT !.buffer[d.top % d.capacity] = item, !.top = d.top + 1]]

\* bool push(T&& item)
push(d, item) ==
    LET t == d.top
        b == d.bottom
    IN  IF SizeSub(t, b) >= d.capacity
        THEN [ok |-> FALSE, dq |-> d]
        ELSE [ok |-> TRUE,
              dq |-> [d EXCEPT !.buffer[t % d.capacity] = item, !.top = t + 1]]

\* a pop that takes from the end the thieves take from
pop_oldest(d, item) ==
    IF d.top <= d.bottom
    THEN [ok |-> FALSE, item |-> item, dq |-> d]
    ELSE [ok |-> TRUE, item |-> d.buffer[d.bottom % d.capacity],
          dq |-> [d EXCEPT !.buffer[d.bottom % d.capacity] = NoTask,
                           !.bottom = d.bottom + 1]]

\* bool pop(T& item): the moved-from slot is left empty; on failure item keeps
\* the value the caller passed in
pop(d, item) ==
    LET t == d.top
        b == d.bottom
        new_top == t - 1
    IN  IF t <= b
        THEN [ok |-> FALSE, item |-> item, dq |-> d]
        ELSE [ok |-> TRUE, item |-> d.buffer[new_top % d.capacity],
              dq |-> [d EXCEPT !.buffer[new_top % d.capacity] = NoTask,
                               !.top = new_top]]

\* steal without its store to bottom_
steal_no_advance(d, item) ==
    IF d.bottom >= d.top
    THEN [ok |-> FALSE, item |-> item, dq |-> d]
    ELSE [ok |-> TRUE, item |-> d.buffer[d.bottom % d.capacity], dq |-> d]

\* bool steal(T& item)
steal(d, item) ==
    LET b == d.bottom
        t == d.top
    IN  IF b >= t
        THEN [ok |-> FALSE, item |-> item, dq |-> d]
        ELSE [ok |-> TRUE, item |-> d.buffer[b % d.capacity],
              dq |-> [d EXCEPT !.buffer[b % d.capacity] = NoTask,
                               !.bottom = b + 1]]

\* size_t size() const
size(d) == IF d.top > d.bottom THEN d.top - d.bottom ELSE 0

\* bool empty() const
empty(d) == size(d) = 0

(***************************************************************************)
(* The stand-alone deque driven by its owner and by thieves.               *)
(***************************************************************************)
\* no size() / empty() call has been made
NoSizeCall == [pc |-> "idle", call |-> "none", t |-> 0, b |-> 0, value |-> 0,
               ret |-> FALSE]

DequeInit ==
    /\ dq = EmptyDeque(Capacity)
    /\ d_next = 1
    /\ d_count = [t \in {} |-> 0]
    /\ d_res = [by |-> "none", op |-> "none", ok |-> FALSE, item |-> NoTask]
    /\ d_size = NoSizeCall

\* the owner pushes its next task
DequePush ==
    /\ d_next <= MaxPush
    /\ LET r == push(dq, d_next)
       IN  /\ dq' = r.dq
           /\ d_next' = IF r.ok THEN d_next + 1 ELSE d_next
           /\ d_count' = IF r.ok THEN d_count @@ (d_next :> 0) ELSE d_count
           /\ d_res' = [by |-> "owner", op |-> "push", ok |-> r.ok, item |-> d_next]
    /\ UNCHANGED <<d_size, pvars, svars, fvars, evars, gvars, rvars>>

\* a call returned task t to its caller
Delivered(cnt, r) ==
    IF r.ok /\ r.item \in DOMAIN cnt
    THEN [cnt EXCEPT ![r.item] = @ + 1]
    ELSE cnt

\* the owner pops
DequePop ==
    LET r == pop(dq, NoTask)
    IN  /\ dq' = r.dq
        /\ d_count' = Delivered(d_count, r)
        /\ d_res' = [by |-> "owner", op |-> "pop", ok |-> r.ok, item |-> r.item]
        /\ UNCHANGED <<d_next, d_size, pvars, svars, fvars, evars, gvars, rvars>>

\* a thief steals
DequeSteal(th) ==
    LET r == steal(dq, NoTask)
    IN  /\ dq' = r.dq
        /\ d_count' = Delivered(d_count, r)
        /\ d_res' = [by |-> th, op |-> "steal", ok |-> r.ok, item |-> r.item]
        /\ UNCHANGED <<d_next, d_size, pvars, svars, fvars, evars, gvars, rvars>>

\* size() or empty() (which calls size()) begins:
\* t = top_.load(memory_order_relaxed), no lock taken
Size_load_top(call) ==
    /\ d_size.pc = "idle"
    /\ d_size' = [d_size EXCEPT !.pc = "loaded", !.call = call, !.t = dq.top]
    /\ UNCHANGED <<dq, d_next, d_count, d_res, pvars, svars, fvars, evars, gvars, rvars>>

\* a size() that returns t - b without comparing t with b first
Size_load_bottom_unguarded ==
    /\ d_size.pc = "loaded"
    /\ LET b == dq.bottom
           v == SizeSub(d_size.t, b)
       IN  d_size' = [d_size EXCEPT !.pc = "idle", !.b = b, !.value = v,
                                    !.ret = (v = 0)]
    /\ UNCHANGED <<dq, d_next, d_count, d_res, pvars, svars, fvars, evars, gvars, rvars>>

\* b = bottom_.load(memory_order_relaxed); return t > b ? t - b : 0; and
\* empty() returns size() == 0.  The two loads are taken in program order and
\* each returns the value last stored (interleaving semantics).
Size_load_bottom ==
    /\ d_size.pc = "loaded"
    /\ LET b == dq.bottom
           v == IF d_size.t > b THEN SizeSub(d_size.t, b) ELSE 0
       IN  d_size' = [d_size EXCEPT !.pc = "idle", !.b = b, !.value = v,
                                    !.ret = (v = 0)]
    /\ UNCHANGED <<dq, d_next, d_count, d_res, pvars, svars, fvars, evars, gvars, rvars>>

(***************************************************************************)
(* The pools: state after construction.                                    *)
(***************************************************************************)
\* a worker thread that has just entered worker_function; path records by
\* which way it got the task it holds
WorkerStart(type) ==
    [pc |-> IF type = "HighPerformancePool" THEN "pop" ELSE "check",
     task |-> NoTask, attempts |-> 0, stolen |-> FALSE, raised |-> FALSE,
     path |-> "none"]

\* a thread that is not inside submit / submit_batch
SubIdle == [pc |-> "idle", task |-> NoTask, last |-> NoTask, queue |-> 0, attempts |-> 0]

\* the owning thread outside every call
MainIdle == [pc |-> "idle", clean |-> FALSE, upto |-> 0, calls |-> 0]

\* the constructors of HighPerformancePool, FastThreadPool and ThreadPool
PoolConstructed(type, submitters) ==
    /\ PoolType = type
    /\ stop_ = FALSE
    /\ worker_queues_ = [w \in Workers |-> EmptyDeque(PoolCapacity)]
    /\ overflow_tasks_ = <<>>
    /\ tasks_ = <<>>
    /\ next_victim_ = 0
    /\ active_tasks_ = 0
    /\ completed_tasks_ = 0
    /\ stolen_tasks_ = 0
    /\ wk = [w \in Workers |-> WorkerStart(type)]
    /\ sub = [s \in submitters |-> SubIdle]
    /\ main = MainIdle
    /\ n_tasks = 0
    /\ tk = [t \in Tasks |-> [handle |-> "none", runs |-> 0, queued |-> "no"]]

(***************************************************************************)
(* Helpers shared by the three pools.                                      *)
(***************************************************************************)
\* tasks first .. last get a std::packaged_task and a std::future each
Created(first, last) ==
    [t \in Tasks |-> IF t \in first .. last THEN [tk[t] EXCEPT !.handle = "pending"]
                     ELSE tk[t]]

\* throw std::runtime_error("... is shutting down"): the futures of tasks
\* first .. last never reach the caller
Rejected(h, first, last) ==
    [t \in Tasks |-> IF t \in first .. last THEN [h[t] EXCEPT !.handle = "rejected"]
                     ELSE h[t]]

\* tasks first .. last went into a buffer or a queue; remembered with each is
\* whether stop_ was still false at that moment
Enqueued(h, first, last) ==
    [t \in Tasks |-> IF t \in first .. last
                     THEN [h[t] EXCEPT !.queued = IF stop_ THEN "late" ELSE "early"]
                     ELSE h[t]]

\* a submission that starts while wait_for_tasks is running is concurrent with it
NoteSubmission ==
    IF main.pc \in {"wft_check", "wft_pre", "wft_blocked"}
    THEN [main EXCEPT !.clean = FALSE]
    ELSE main

\* condition_variable::notify_one on the workers' condition: one blocked
\* worker, if there is any, is woken and will test its predicate again
NotifyOneWorker(next) ==
    IF \E w \in Workers : wk[w].pc = "blocked"
    THEN \E w \in Workers : /\ wk[w].pc = "blocked"
                            /\ next = [wk EXCEPT ![w].pc = "check"]
    ELSE next = wk

\* condition_variable::notify_all on the workers' condition
NotifyAllWorkers ==
    [w \in Workers |-> IF wk[w].pc = "blocked" THEN [wk[w] EXCEPT !.pc = "check"]
                       ELSE wk[w]]

\* notify_all on the condition wait_for_tasks waits on: a blocked waiter is
\* woken; a waiter that has not blocked yet misses the notification
NotifyWaiter ==
    IF main.pc = "wft_blocked" THEN [main EXCEPT !.pc = "wft_check"] ELSE main

\* a worker without the catch: a body that raises ends the thread
after_task_uncaught(type, outcome) ==
    IF outcome = "exception" THEN "exit"
    ELSE IF type = "ThreadPool" THEN "finish" ELSE "end"

\* the worker's try { task(); } catch (...) {}: whatever the body did, the
\* worker goes on with the statement after the catch
after_task(type, outcome) ==
    IF type = "ThreadPool" THEN "finish" ELSE "end"

\* the bodies of the submitted tasks: the body of the tasks in Throwing
\* raises, the others return
Throwing == {2}
Body(t) == IF t \in Throwing THEN "exception" ELSE "value"

\* task(): the std::packaged_task runs the body and stores its value or its
\* exception in the shared state of the future; nothing escapes to the worker
Worker_run(w) ==
    /\ wk[w].pc = "run"
    /\ LET outcome == Body(wk[w].task)
       IN  /\ tk' = [tk EXCEPT ![wk[w].task].handle = outcome,
                               ![wk[w].task].runs = @ + 1]
           /\ wk' = [wk EXCEPT ![w].pc = after_task(PoolType, outcome),
                               ![w].raised = @ \/ outcome = "exception"]
    /\ UNCHANGED <<PoolType, stop_, worker_queues_, overflow_tasks_, tasks_,
                   next_victim_, active_tasks_, completed_tasks_, stolen_tasks_,
                   sub, main, n_tasks, dvars, svars, fvars, evars, gvars, rvars>>

(***************************************************************************)
(* HighPerformancePool::submit                                             *)
(***************************************************************************)
\* the packaged_task and its future are made, then stop_ is tested
HP_submit_check(s) ==
    /\ PoolType = "HighPerformancePool"
    /\ sub[s].pc = "idle"
    /\ n_tasks < MaxTasks
    /\ LET t == n_tasks + 1
       IN  /\ n_tasks' = t
           /\ IF stop_
              THEN /\ tk' = Rejected(tk, t, t)
                   /\ sub' = sub
              ELSE /\ tk' = Created(t, t)
                   /\ sub' = [sub EXCEPT ![s] = [SubIdle EXCEPT !.pc = "fetch",
                                                               !.task = t, !.last = t]]
    /\ main' = NoteSubmission
    /\ UNCHANGED <<PoolType, stop_, worker_queues_, overflow_tasks_, tasks_,
                   next_victim_, active_tasks_, completed_tasks_, stolen_tasks_,
                   wk, dvars, svars, fvars, evars, gvars, rvars>>

\* preferred_queue = next_victim_.fetch_add(1) % num_threads_
HP_submit_fetch(s) ==
    /\ sub[s].pc = "fetch"
    /\ sub' = [sub EXCEPT ![s].pc = "push", ![s].queue = next_victim_ % NumThreads]
    /\ next_victim_' = next_victim_ + 1
    /\ UNCHANGED <<PoolType, stop_, worker_queues_, overflow_tasks_, tasks_,
                   active_tasks_, completed_tasks_, stolen_tasks_, wk, main,
                   n_tasks, tk, dvars, svars, fvars, evars, gvars, rvars>>

\* the push into the preferred queue; on success notify_one and return
\* (a worker's wait_for returns on the notification or after its timeout:
\* HP_worker_wait)
HP_submit_push(s) ==
    /\ sub[s].pc = "push"
    /\ LET q == sub[s].queue
           r == push(worker_queues_[q], sub[s].task)
       IN  IF r.ok
           THEN /\ worker_queues_' = [worker_queues_ EXCEPT ![q] = r.dq]
                /\ tk' = Enqueued(tk, sub[s].task, sub[s].task)
                /\ sub' = [sub EXCEPT ![s] = SubIdle]
           ELSE /\ sub' = [sub EXCEPT ![s].pc = "try", ![s].attempts = 0]
                /\ UNCHANGED <<worker_queues_, tk>>
    /\ UNCHANGED <<PoolType, stop_, overflow_tasks_, tasks_, next_victim_,
                   active_tasks_, completed_tasks_, stolen_tasks_, wk, main,
                   n_tasks, dvars, svars, fvars, evars, gvars, rvars>>

\* one round of the loop over min(num_threads_, 3) further queues
HP_submit_try(s) ==
    /\ sub[s].pc = "try"
    /\ LET idx == (sub[s].queue + sub[s].attempts + 1) % NumThreads
           r == push(worker_queues_[idx], sub[s].task)
       IN  IF r.ok
           THEN /\ worker_queues_' = [worker_queues_ EXCEPT ![idx] = r.dq]
                /\ tk' = Enqueued(tk, sub[s].task, sub[s].task)
                /\ sub' = [sub EXCEPT ![s] = SubIdle]
           ELSE /\ sub' = [sub EXCEPT
                       ![s].attempts = @ + 1,
                       ![s].pc = IF sub[s].attempts + 1 < Min(NumThreads, 3)
                                 THEN "try" ELSE "overflow"]
                /\ UNCHANGED <<worker_queues_, tk>>
    /\ UNCHANGED <<PoolType, stop_, overflow_tasks_, tasks_, next_victim_,
                   active_tasks_, completed_tasks_, stolen_tasks_, wk, main,
                   n_tasks, dvars, svars, fvars, evars, gvars, rvars>>

\* a submit that hands out the future and forgets the task when every queue
\* it tried was full
HP_submit_overflow_drop(s) ==
    /\ sub[s].pc = "overflow"
    /\ tk' = Enqueued(tk, sub[s].task, sub[s].task)
    /\ sub' = [sub EXCEPT ![s] = SubIdle]
    /\ UNCHANGED <<PoolType, stop_, worker_queues_, overflow_tasks_, tasks_,
                   next_victim_, active_tasks_, completed_tasks_, stolen_tasks_,
                   wk, main, n_tasks, dvars, svars, fvars, evars, gvars, rvars>>

\* under overflow_mutex_: stop_ is tested again, then the task goes into the
\* overflow queue; notify_all and return
HP_submit_overflow(s) ==
    /\ sub[s].pc = "overflow"
    /\ IF stop_
       THEN /\ tk' = Rejected(tk, sub[s].task, sub[s].task)
            /\ UNCHANGED overflow_tasks_
       ELSE /\ overflow_tasks_' = Append(overflow_tasks_, sub[s].task)
            /\ tk' = Enqueued(tk, sub[s].task, sub[s].task)
    /\ sub' = [sub EXCEPT ![s] = SubIdle]
    /\ UNCHANGED <<PoolType, stop_, worker_queues_, tasks_, next_victim_,
                   active_tasks_, completed_tasks_, stolen_tasks_, wk, main,
                   n_tasks, dvars, svars, fvars, evars, gvars, rvars>>

(***************************************************************************)
(* HighPerformancePool::submit_batch                                       *)
(***************************************************************************)
\* the next item of the batch, or notify_all and return after the last one
BatchAdvance(s) ==
    IF sub[s].task = sub[s].last
    THEN SubIdle
    ELSE [sub[s] EXCEPT !.task = @ + 1, !.attempts = 0, !.pc = "b_push"]

\* stop_ is tested once, before the batch
HP_batch_check(s) ==
    /\ PoolType = "HighPerformancePool"
    /\ sub[s].pc = "idle"
    /\ \E k \in 2 .. Min(MaxBatch, MaxTasks - n_tasks) :
         /\ n_tasks' = n_tasks + k
         /\ IF stop_
            THEN /\ tk' = Rejected(tk, n_tasks + 1, n_tasks + k)
                 /\ sub' = sub
            ELSE /\ tk' = Created(n_tasks + 1, n_tasks + k)
                 /\ sub' = [sub EXCEPT ![s] = [SubIdle EXCEPT !.pc = "b_fetch",
                                                             !.task = n_tasks + 1,
                                                             !.last = n_tasks + k]]
    /\ main' = NoteSubmission
    /\ UNCHANGED <<PoolType, stop_, worker_queues_, overflow_tasks_, tasks_,
                   next_victim_, active_tasks_, completed_tasks_, stolen_tasks_,
                   wk, dvars, svars, fvars, evars, gvars, rvars>>

\* queue_idx = next_victim_.fetch_add(batch_size) % num_threads_
HP_batch_fetch(s) ==
    /\ sub[s].pc = "b_fetch"
    /\ sub' = [sub EXCEPT ![s].pc = "b_push", ![s].queue = next_victim_ % NumThreads]
    /\ next_victim_' = next_victim_ + (sub[s].last - sub[s].task + 1)
    /\ UNCHANGED <<PoolType, stop_, worker_queues_, overflow_tasks_, tasks_,
                   active_tasks_, completed_tasks_, stolen_tasks_, wk, main,
                   n_tasks, tk, dvars, svars, fvars, evars, gvars, rvars>>

\* one round of the inner loop: a push into worker_queues_[queue_idx]; after
\* a success queue_idx stays where it is, after a failure it moves on
HP_batch_push(s) ==
    /\ sub[s].pc = "b_push"
    /\ LET q == sub[s].queue
           r == push(worker_queues_[q], sub[s].task)
       IN  IF r.ok
           THEN /\ worker_queues_' = [worker_queues_ EXCEPT ![q] = r.dq]
                /\ tk' = Enqueued(tk, sub[s].task, sub[s].task)
                /\ sub' = [sub EXCEPT ![s] = BatchAdvance(s)]
           ELSE /\ sub' = [sub EXCEPT
                       ![s].queue = (q + 1) % NumThreads,
                       ![s].attempts = @ + 1,
                       ![s].pc = IF sub[s].attempts + 1 < NumThreads
                                 THEN "b_push" ELSE "b_overflow"]
                /\ UNCHANGED <<worker_queues_, tk>>
    /\ UNCHANGED <<PoolType, stop_, overflow_tasks_, tasks_, next_victim_,
                   active_tasks_, completed_tasks_, stolen_tasks_, wk, main,
                   n_tasks, dvars, svars, fvars, evars, gvars, rvars>>

\* under overflow_mutex_: the item goes into the overflow queue (stop_ is not
\* tested here)
HP_batch_overflow(s) ==
    /\ sub[s].pc = "b_overflow"
    /\ overflow_tasks_' = Append(overflow_tasks_, sub[s].task)
    /\ tk' = Enqueued(tk, sub[s].task, sub[s].task)
    /\ sub' = [sub EXCEPT ![s] = BatchAdvance(s)]
    /\ UNCHANGED <<PoolType, stop_, worker_queues_, tasks_, next_victim_,
                   active_tasks_, completed_tasks_, stolen_tasks_, wk, main,
                   n_tasks, dvars, svars, fvars, evars, gvars, rvars>>

(***************************************************************************)
(* HighPerformancePool::worker_function                                    *)
(***************************************************************************)
\* 1. pop from the worker's own queue
HP_worker_pop(w) ==
    /\ PoolType = "HighPerformancePool"
    /\ wk[w].pc = "pop"
    /\ LET r == pop(worker_queues_[w], wk[w].task)
       IN  IF r.ok
           THEN /\ worker_queues_' = [worker_queues_ EXCEPT ![w] = r.dq]
                /\ wk' = [wk EXCEPT ![w].pc = "begin", ![w].task = r.item,
                                    ![w].stolen = FALSE, ![w].path = "pop"]
           ELSE /\ wk' = [wk EXCEPT ![w].pc = "steal", ![w].attempts = 0]
                /\ UNCHANGED worker_queues_
    /\ UNCHANGED <<PoolType, stop_, overflow_tasks_, tasks_, next_victim_,
                   active_tasks_, completed_tasks_, stolen_tasks_, sub, main,
                   n_tasks, tk, dvars, svars, fvars, evars, gvars, rvars>>

\* a steal loop that counts every attempt in stolen_tasks_, not every success
HP_worker_steal_counting(w) ==
    /\ wk[w].pc = "steal"
    /\ stolen_tasks_' = stolen_tasks_ + 1
    /\ \E victim_id \in Workers :
         LET r == steal(worker_queues_[victim_id], wk[w].task)
         IN  IF victim_id # w /\ r.ok
             THEN /\ worker_queues_' = [worker_queues_ EXCEPT ![victim_id] = r.dq]
                  /\ wk' = [wk EXCEPT ![w].pc = "begin", ![w].task = r.item,
                                      ![w].attempts = 0, ![w].stolen = TRUE]
             ELSE /\ wk' = IF wk[w].attempts + 1 < Min(NumThreads, 4)
                           THEN [wk EXCEPT ![w].attempts = @ + 1]
                           ELSE [wk EXCEPT ![w].attempts = 0, ![w].pc = "overflow"]
                  /\ UNCHANGED worker_queues_
    /\ UNCHANGED <<PoolType, stop_, overflow_tasks_, tasks_, next_victim_,
                   active_tasks_, completed_tasks_, sub, main,
                   n_tasks, tk, dvars, svars, fvars, evars, gvars, rvars>>

\* a steal loop that looks into no buffer but the worker's own
HP_worker_steal_owner_only(w) ==
    /\ wk[w].pc = "steal"
    /\ wk' = IF wk[w].attempts + 1 < Min(NumThreads, 4)
             THEN [wk EXCEPT ![w].attempts = @ + 1]
             ELSE [wk EXCEPT ![w].attempts = 0, ![w].pc = "overflow"]
    /\ UNCHANGED <<PoolType, stop_, worker_queues_, overflow_tasks_, tasks_, next_victim_,
                   active_tasks_, completed_tasks_, stolen_tasks_, sub, main,
                   n_tasks, tk, dvars, svars, fvars, evars, gvars, rvars>>

\* 2. one of min(num_threads_, 4) attempts: victim_id = dist(gen), any worker
HP_worker_steal(w) ==
    /\ wk[w].pc = "steal"
    /\ \E victim_id \in Workers :
         LET r == steal(worker_queues_[victim_id], wk[w].task)
         IN  IF victim_id # w /\ r.ok
             THEN /\ worker_queues_' = [worker_queues_ EXCEPT ![victim_id] = r.dq]
                  /\ wk' = [wk EXCEPT ![w].pc = "count_stolen", ![w].task = r.item,
                                      ![w].attempts = 0, ![w].path = "steal"]
             ELSE /\ wk' = IF wk[w].attempts + 1 < Min(NumThreads, 4)
                           THEN [wk EXCEPT ![w].attempts = @ + 1]
                           ELSE [wk EXCEPT ![w].attempts = 0, ![w].pc = "overflow"]
                  /\ UNCHANGED worker_queues_
    /\ UNCHANGED <<PoolType, stop_, overflow_tasks_, tasks_, next_victim_,
                   active_tasks_, completed_tasks_, stolen_tasks_, sub, main,
                   n_tasks, tk, dvars, svars, fvars, evars, gvars, rvars>>

\* stolen_tasks_.fetch_add(1) after a successful steal
HP_worker_count_stolen(w) ==
    /\ wk[w].pc = "count_stolen"
    /\ stolen_tasks_' = stolen_tasks_ + 1
    /\ wk' = [wk EXCEPT ![w].pc = "begin", ![w].stolen = TRUE]
    /\ UNCHANGED <<PoolType, stop_, worker_queues_, overflow_tasks_, tasks_,
                   next_victim_, active_tasks_, completed_tasks_, sub, main,
                   n_tasks, tk, dvars, svars, fvars, evars, gvars, rvars>>

\* a worker that counts a task from the overflow queue as stolen
HP_worker_overflow_counting(w) ==
    /\ wk[w].pc = "overflow"
    /\ IF overflow_tasks_ # <<>>
       THEN /\ wk' = [wk EXCEPT ![w].pc = "begin", ![w].task = Head(overflow_tasks_),
                                ![w].stolen = FALSE]
            /\ overflow_tasks_' = Tail(overflow_tasks_)
            /\ stolen_tasks_' = stolen_tasks_ + 1
       ELSE /\ wk' = [wk EXCEPT ![w].pc = "check_stop"]
            /\ UNCHANGED <<overflow_tasks_, stolen_tasks_>>
    /\ UNCHANGED <<PoolType, stop_, worker_queues_, tasks_, next_victim_,
                   active_tasks_, completed_tasks_, sub, main,
                   n_tasks, tk, dvars, svars, fvars, evars, gvars, rvars>>

\* a worker that takes the front of the overflow queue and leaves it there
HP_worker_overflow_keep(w) ==
    /\ wk[w].pc = "overflow"
    /\ IF overflow_tasks_ # <<>>
       THEN wk' = [wk EXCEPT ![w].pc = "begin", ![w].task = Head(overflow_tasks_),
                             ![w].stolen = FALSE]
       ELSE wk' = [wk EXCEPT ![w].pc = "check_stop"]
    /\ UNCHANGED <<PoolType, stop_, worker_queues_, overflow_tasks_, tasks_, next_victim_,
                   active_tasks_, completed_tasks_, stolen_tasks_, sub, main,
                   n_tasks, tk, dvars, svars, fvars, evars, gvars, rvars>>

\* 3. under overflow_mutex_: the front of the overflow queue, if there is one
HP_worker_overflow(w) ==
    /\ wk[w].pc = "overflow"
    /\ IF overflow_tasks_ # <<>>
       THEN /\ wk' = [wk EXCEPT ![w].pc = "begin", ![w].task = Head(overflow_tasks_),
                                ![w].stolen = FALSE, ![w].path = "overflow"]
            /\ overflow_tasks_' = Tail(overflow_tasks_)
       ELSE /\ wk' = [wk EXCEPT ![w].pc = "check_stop"]
            /\ UNCHANGED overflow_tasks_
    /\ UNCHANGED <<PoolType, stop_, worker_queues_, tasks_, next_victim_,
                   active_tasks_, completed_tasks_, stolen_tasks_, sub, main,
                   n_tasks, tk, dvars, svars, fvars, evars, gvars, rvars>>

\* active_tasks_.fetch_add(1)
HP_worker_begin(w) ==
    /\ PoolType = "HighPerformancePool"
    /\ wk[w].pc = "begin"
    /\ active_tasks_' = active_tasks_ + 1
    /\ wk' = [wk EXCEPT ![w].pc = "run"]
    /\ UNCHANGED <<PoolType, stop_, worker_queues_, overflow_tasks_, tasks_,
                   next_victim_, completed_tasks_, stolen_tasks_, sub, main,
                   n_tasks, tk, dvars, svars, fvars, evars, gvars, rvars>>

\* active_tasks_.fetch_sub(1)
HP_worker_end(w) ==
    /\ PoolType = "HighPerformancePool"
    /\ wk[w].pc = "end"
    /\ active_tasks_' = active_tasks_ - 1
    /\ wk' = [wk EXCEPT ![w].pc = "count"]
    /\ UNCHANGED <<PoolType, stop_, worker_queues_, overflow_tasks_, tasks_,
                   next_victim_, completed_tasks_, stolen_tasks_, sub, main,
                   n_tasks, tk, dvars, svars, fvars, evars, gvars, rvars>>

\* completed_tasks_.fetch_add(1)
HP_worker_count(w) ==
    /\ PoolType = "HighPerformancePool"
    /\ wk[w].pc = "count"
    /\ completed_tasks_' = completed_tasks_ + 1
    /\ wk' = [wk EXCEPT ![w].pc = "notify"]
    /\ UNCHANGED <<PoolType, stop_, worker_queues_, overflow_tasks_, tasks_,
                   next_victim_, active_tasks_, stolen_tasks_, sub, main,
                   n_tasks, tk, dvars, svars, fvars, evars, gvars, rvars>>

\* completion_condition_.notify_all(), then the next round of the loop (the
\* callable left in `task` is not invoked again: found_task starts false)
HP_worker_notify(w) ==
    /\ PoolType = "HighPerformancePool"
    /\ wk[w].pc = "notify"
    /\ main' = NotifyWaiter
    /\ wk' = [wk EXCEPT ![w] = [WorkerStart(PoolType) EXCEPT !.raised = wk[w].raised]]
    /\ UNCHANGED <<PoolType, stop_, worker_queues_, overflow_tasks_, tasks_,
                   next_victim_, active_tasks_, completed_tasks_, stolen_tasks_,
                   sub, n_tasks, tk, dvars, svars, fvars, evars, gvars, rvars>>

\* no work found: stop_ is tested, the loop ends when it is set
HP_worker_check_stop(w) ==
    /\ wk[w].pc = "check_stop"
    /\ wk' = [wk EXCEPT ![w].pc = IF stop_ THEN "exit" ELSE "wait"]
    /\ UNCHANGED <<PoolType, stop_, worker_queues_, overflow_tasks_, tasks_,
                   next_victim_, active_tasks_, completed_tasks_, stolen_tasks_,
                   sub, main, n_tasks, tk, dvars, svars, fvars, evars, gvars, rvars>>

\* wakeup_condition_.wait_for(lock, 100us) returns: notified or timed out
HP_worker_wait(w) ==
    /\ wk[w].pc = "wait"
    /\ wk' = [wk EXCEPT ![w].pc = "pop"]
    /\ UNCHANGED <<PoolType, stop_, worker_queues_, overflow_tasks_, tasks_,
                   next_victim_, active_tasks_, completed_tasks_, stolen_tasks_,
                   sub, main, n_tasks, tk, dvars, svars, fvars, evars, gvars, rvars>>

(***************************************************************************)
(* HighPerformancePool::wait_for_tasks and ::shutdown, called by the       *)
(* thread that owns the pool.                                              *)
(***************************************************************************)
\* size_t pending_tasks() const
HP_pending_tasks ==
    LET Sum[i \in 0 .. NumThreads] ==
            IF i = 0 THEN 0 ELSE Sum[i - 1] + size(worker_queues_[i - 1])
    IN  Sum[NumThreads] + Len(overflow_tasks_)

\* the owner calls wait_for_tasks()
Main_wait_for_tasks ==
    /\ PoolType \in {"HighPerformancePool", "ThreadPool"}
    /\ main.pc = "idle"
    /\ ~stop_
    /\ main' = [main EXCEPT !.pc = "wft_check",
                            !.clean = \A s \in Submitters : sub[s].pc = "idle",
                            !.upto = n_tasks]
    /\ UNCHANGED <<PoolType, stop_, worker_queues_, overflow_tasks_, tasks_,
                   next_victim_, active_tasks_, completed_tasks_, stolen_tasks_,
                   wk, sub, n_tasks, tk, dvars, svars, fvars, evars, gvars, rvars>>

\* the predicate of completion_condition_.wait, evaluated under
\* completion_mutex_ (which no worker and no submit takes): pending_tasks()
\* == 0 && active_tasks_ == 0. Without a submission running beside it the
\* queues only shrink, so the value read queue by queue is the value at the
\* final read of active_tasks_.
HP_wait_check ==
    /\ PoolType = "HighPerformancePool"
    /\ main.pc = "wft_check"
    /\ main' = [main EXCEPT !.pc = IF HP_pending_tasks = 0 /\ active_tasks_ = 0
                                   THEN "wft_ret" ELSE "wft_pre"]
    /\ UNCHANGED <<PoolType, stop_, worker_queues_, overflow_tasks_, tasks_,
                   next_victim_, active_tasks_, completed_tasks_, stolen_tasks_,
                   wk, sub, n_tasks, tk, dvars, svars, fvars, evars, gvars, rvars>>

\* the predicate was false: the waiter blocks on completion_condition_
HP_wait_block ==
    /\ PoolType = "HighPerformancePool"
    /\ main.pc = "wft_pre"
    /\ main' = [main EXCEPT !.pc = "wft_blocked"]
    /\ UNCHANGED <<PoolType, stop_, worker_queues_, overflow_tasks_, tasks_,
                   next_victim_, active_tasks_, completed_tasks_, stolen_tasks_,
                   wk, sub, n_tasks, tk, dvars, svars, fvars, evars, gvars, rvars>>

\* wait_for_tasks() has returned to the owner
Main_wait_returned ==
    /\ main.pc = "wft_ret"
    /\ main' = [main EXCEPT !.pc = "idle", !.clean = FALSE, !.upto = 0]
    /\ UNCHANGED <<PoolType, stop_, worker_queues_, overflow_tasks_, tasks_,
                   next_victim_, active_tasks_, completed_tasks_, stolen_tasks_,
                   wk, sub, n_tasks, tk, dvars, svars, fvars, evars, gvars, rvars>>

\* shutdown(), first part, under overflow_mutex_: stop_.exchange(true); a
\* call that finds stop_ set returns at once
HP_shutdown ==
    /\ PoolType = "HighPerformancePool"
    /\ main.pc = "idle"
    /\ main.calls < MaxShutdownCalls
    /\ IF stop_
       THEN main' = [main EXCEPT !.calls = @ + 1]
       ELSE main' = [main EXCEPT !.pc = "sd_notify"]
    /\ stop_' = TRUE
    /\ UNCHANGED <<PoolType, worker_queues_, overflow_tasks_, tasks_,
                   next_victim_, active_tasks_, completed_tasks_, stolen_tasks_,
                   wk, sub, n_tasks, tk, dvars, svars, fvars, evars, gvars, rvars>>

\* shutdown() without its notify_all
Shutdown_notify_none ==
    /\ main.pc = "sd_notify"
    /\ main' = [main EXCEPT !.pc = "sd_join"]
    /\ UNCHANGED <<PoolType, stop_, worker_queues_, overflow_tasks_, tasks_,
                   next_victim_, active_tasks_, completed_tasks_, stolen_tasks_,
                   wk, sub, n_tasks, tk, dvars, svars, fvars, evars, gvars, rvars>>

\* shutdown(), second part: notify_all on the workers' condition
Shutdown_notify ==
    /\ main.pc = "sd_notify"
    /\ wk' = NotifyAllWorkers
    /\ main' = [main EXCEPT !.pc = "sd_join"]
    /\ UNCHANGED <<PoolType, stop_, worker_queues_, overflow_tasks_, tasks_,
                   next_victim_, active_tasks_, completed_tasks_, stolen_tasks_,
                   sub, n_tasks, tk, dvars, svars, fvars, evars, gvars, rvars>>

\* shutdown(), third part: every worker has been joined; workers_.clear()
Shutdown_join ==
    /\ main.pc = "sd_join"
    /\ \A w \in Workers : wk[w].pc = "exit"
    /\ main' = [main EXCEPT !.pc = "idle", !.calls = @ + 1]
    /\ UNCHANGED <<PoolType, stop_, worker_queues_, overflow_tasks_, tasks_,
                   next_victim_, active_tasks_, completed_tasks_, stolen_tasks_,
                   wk, sub, n_tasks, tk, dvars, svars, fvars, evars, gvars, rvars>>

(***************************************************************************)
(* FastThreadPool                                                          *)
(***************************************************************************)
\* submit, under queue_mutex_: stop_ is tested and the task enqueued
Fast_submit(s) ==
    /\ PoolType = "FastThreadPool"
    /\ sub[s].pc = "idle"
    /\ n_tasks < MaxTasks
    /\ LET t == n_tasks + 1
       IN  /\ n_tasks' = t
           /\ IF stop_
              THEN /\ tk' = Rejected(tk, t, t)
                   /\ UNCHANGED <<tasks_, sub>>
              ELSE /\ tk' = Enqueued(Created(t, t), t, t)
                   /\ tasks_' = Append(tasks_, t)
                   /\ sub' = [sub EXCEPT ![s].pc = "notify_one"]
    /\ UNCHANGED <<PoolType, stop_, worker_queues_, overflow_tasks_,
                   next_victim_, active_tasks_, completed_tasks_, stolen_tasks_,
                   wk, main, dvars, svars, fvars, evars, gvars, rvars>>

\* submit_batch, under queue_mutex_: stop_ is tested once and the whole batch
\* enqueued
Fast_submit_batch(s) ==
    /\ PoolType = "FastThreadPool"
    /\ sub[s].pc = "idle"
    /\ \E k \in 2 .. Min(MaxBatch, MaxTasks - n_tasks) :
         /\ n_tasks' = n_tasks + k
         /\ IF stop_
            THEN /\ tk' = Rejected(tk, n_tasks + 1, n_tasks + k)
                 /\ UNCHANGED <<tasks_, sub>>
            ELSE /\ tk' = Enqueued(Created(n_tasks + 1, n_tasks + k),
                                   n_tasks + 1, n_tasks + k)
                 /\ tasks_' = tasks_ \o [i \in 1 .. k |-> n_tasks + i]
                 /\ sub' = [sub EXCEPT ![s].pc = "notify_all"]
    /\ UNCHANGED <<PoolType, stop_, worker_queues_, overflow_tasks_,
                   next_victim_, active_tasks_, completed_tasks_, stolen_tasks_,
                   wk, main, dvars, svars, fvars, evars, gvars, rvars>>

\* a submit that returns without notifying any worker
Submit_notify_nobody(s) ==
    /\ sub[s].pc = "notify_one"
    /\ sub' = [sub EXCEPT ![s] = SubIdle]
    /\ UNCHANGED <<PoolType, stop_, worker_queues_, overflow_tasks_, tasks_,
                   next_victim_, active_tasks_, completed_tasks_, stolen_tasks_,
                   wk, main, n_tasks, tk, dvars, svars, fvars, evars, gvars, rvars>>

\* a submit that returns only once it has handed its task to a waiting worker
Submit_notify_handoff(s) ==
    /\ sub[s].pc = "notify_one"
    /\ \E w \in Workers : wk[w].pc = "blocked"
    /\ NotifyOneWorker(wk')
    /\ sub' = [sub EXCEPT ![s] = SubIdle]
    /\ UNCHANGED <<PoolType, stop_, worker_queues_, overflow_tasks_, tasks_,
                   next_victim_, active_tasks_, completed_tasks_, stolen_tasks_,
                   main, n_tasks, tk, dvars, svars, fvars, evars, gvars, rvars>>

\* condition_.notify_one() after the lock is released, then return
Submit_notify_one(s) ==
    /\ sub[s].pc = "notify_one"
    /\ NotifyOneWorker(wk')
    /\ sub' = [sub EXCEPT ![s] = SubIdle]
    /\ UNCHANGED <<PoolType, stop_, worker_queues_, overflow_tasks_, tasks_,
                   next_victim_, active_tasks_, completed_tasks_, stolen_tasks_,
                   main, n_tasks, tk, dvars, svars, fvars, evars, gvars, rvars>>

\* condition_.notify_all() after the lock is released, then return
Submit_notify_all(s) ==
    /\ sub[s].pc = "notify_all"
    /\ wk' = NotifyAllWorkers
    /\ sub' = [sub EXCEPT ![s] = SubIdle]
    /\ UNCHANGED <<PoolType, stop_, worker_queues_, overflow_tasks_, tasks_,
                   next_victim_, active_tasks_, completed_tasks_, stolen_tasks_,
                   main, n_tasks, tk, dvars, svars, fvars, evars, gvars, rvars>>

\* worker_function, under queue_mutex_: condition_.wait_for(lock, 10ms,
\* stop_ || !tasks_.empty()); with the predicate true the worker returns
\* (stop_ and nothing queued) or takes the front task; with it false the
\* worker blocks
Fast_worker_check(w) ==
    /\ PoolType = "FastThreadPool"
    /\ wk[w].pc = "check"
    /\ IF stop_ \/ tasks_ # <<>>
       THEN IF stop_ /\ tasks_ = <<>>
            THEN /\ wk' = [wk EXCEPT ![w].pc = "exit"]
                 /\ UNCHANGED tasks_
            ELSE /\ wk' = [wk EXCEPT ![w].pc = "begin", ![w].task = Head(tasks_)]
                 /\ tasks_' = Tail(tasks_)
       ELSE /\ wk' = [wk EXCEPT ![w].pc = "blocked"]
            /\ UNCHANGED tasks_
    /\ UNCHANGED <<PoolType, stop_, worker_queues_, overflow_tasks_,
                   next_victim_, active_tasks_, completed_tasks_, stolen_tasks_,
                   sub, main, n_tasks, tk, dvars, svars, fvars, evars, gvars, rvars>>

\* the 10ms of wait_for are over: the predicate is tested again; when it is
\* still false stop_ is false too and the loop starts over
Fast_worker_timeout(w) ==
    /\ PoolType = "FastThreadPool"
    /\ wk[w].pc = "blocked"
    /\ wk' = [wk EXCEPT ![w].pc = "check"]
    /\ UNCHANGED <<PoolType, stop_, worker_queues_, overflow_tasks_, tasks_,
                   next_victim_, active_tasks_, completed_tasks_, stolen_tasks_,
                   sub, main, n_tasks, tk, dvars, svars, fvars, evars, gvars, rvars>>

\* active_tasks_.fetch_add(1)
Fast_worker_begin(w) ==
    /\ PoolType = "FastThreadPool"
    /\ wk[w].pc = "begin"
    /\ active_tasks_' = active_tasks_ + 1
    /\ wk' = [wk EXCEPT ![w].pc = "run"]
    /\ UNCHANGED <<PoolType, stop_, worker_queues_, overflow_tasks_, tasks_,
                   next_victim_, completed_tasks_, stolen_tasks_, sub, main,
                   n_tasks, tk, dvars, svars, fvars, evars, gvars, rvars>>

\* active_tasks_.fetch_sub(1)
Fast_worker_end(w) ==
    /\ PoolType = "FastThreadPool"
    /\ wk[w].pc = "end"
    /\ active_tasks_' = active_tasks_ - 1
    /\ wk' = [wk EXCEPT ![w].pc = "count"]
    /\ UNCHANGED <<PoolType, stop_, worker_queues_, overflow_tasks_, tasks_,
                   next_victim_, completed_tasks_, stolen_tasks_, sub, main,
                   n_tasks, tk, dvars, svars, fvars, evars, gvars, rvars>>

\* a worker that counts each task twice
Fast_worker_count_twice(w) ==
    /\ PoolType = "FastThreadPool"
    /\ wk[w].pc = "count"
    /\ completed_tasks_' = completed_tasks_ + 2
    /\ wk' = [wk EXCEPT ![w] = [WorkerStart(PoolType) EXCEPT !.raised = wk[w].raised]]
    /\ UNCHANGED <<PoolType, stop_, worker_queues_, overflow_tasks_, tasks_,
                   next_victim_, active_tasks_, stolen_tasks_, sub, main,
                   n_tasks, tk, dvars, svars, fvars, evars, gvars, rvars>>

\* completed_tasks_.fetch_add(1), then the next round of the loop
Fast_worker_count(w) ==
    /\ PoolType = "FastThreadPool"
    /\ wk[w].pc = "count"
    /\ completed_tasks_' = completed_tasks_ + 1
    /\ wk' = [wk EXCEPT ![w] = [WorkerStart(PoolType) EXCEPT !.raised = wk[w].raised]]
    /\ UNCHANGED <<PoolType, stop_, worker_queues_, overflow_tasks_, tasks_,
                   next_victim_, active_tasks_, stolen_tasks_, sub, main,
                   n_tasks, tk, dvars, svars, fvars, evars, gvars, rvars>>

\* shutdown(), first part, under queue_mutex_: a call that finds stop_ set
\* returns at once, the first call sets it
Fast_shutdown ==
    /\ PoolType = "FastThreadPool"
    /\ main.pc = "idle"
    /\ main.calls < MaxShutdownCalls
    /\ IF stop_
       THEN main' = [main EXCEPT !.calls = @ + 1]
       ELSE main' = [main EXCEPT !.pc = "sd_notify"]
    /\ stop_' = TRUE
    /\ UNCHANGED <<PoolType, worker_queues_, overflow_tasks_, tasks_,
                   next_victim_, active_tasks_, completed_tasks_, stolen_tasks_,
                   wk, sub, n_tasks, tk, dvars, svars, fvars, evars, gvars, rvars>>

(***************************************************************************)
(* ThreadPool                                                              *)
(***************************************************************************)
\* submit, under queue_mutex_: stop_ is tested and the task enqueued
TP_submit(s) ==
    /\ PoolType = "ThreadPool"
    /\ sub[s].pc = "idle"
    /\ n_tasks < MaxTasks
    /\ LET t == n_tasks + 1
       IN  /\ n_tasks' = t
           /\ IF stop_
              THEN /\ tk' = Rejected(tk, t, t)
                   /\ UNCHANGED <<tasks_, sub>>
              ELSE /\ tk' = Enqueued(Created(t, t), t, t)
                   /\ tasks_' = Append(tasks_, t)
                   /\ sub' = [sub EXCEPT ![s].pc = "notify_one"]
    /\ main' = NoteSubmission
    /\ UNCHANGED <<PoolType, stop_, worker_queues_, overflow_tasks_,
                   next_victim_, active_tasks_, completed_tasks_, stolen_tasks_,
                   wk, dvars, svars, fvars, evars, gvars, rvars>>

\* a worker that returns as soon as it sees stop_, whatever is queued
TP_worker_exit_on_stop(w) ==
    /\ PoolType = "ThreadPool"
    /\ wk[w].pc = "check"
    /\ IF stop_ \/ tasks_ # <<>>
       THEN IF stop_
            THEN /\ wk' = [wk EXCEPT ![w].pc = "exit"]
                 /\ UNCHANGED <<tasks_, active_tasks_>>
            ELSE /\ wk' = [wk EXCEPT ![w].pc = "run", ![w].task = Head(tasks_)]
                 /\ tasks_' = Tail(tasks_)
                 /\ active_tasks_' = active_tasks_ + 1
       ELSE /\ wk' = [wk EXCEPT ![w].pc = "blocked"]
            /\ UNCHANGED <<tasks_, active_tasks_>>
    /\ UNCHANGED <<PoolType, stop_, worker_queues_, overflow_tasks_,
                   next_victim_, completed_tasks_, stolen_tasks_,
                   sub, main, n_tasks, tk, dvars, svars, fvars, evars, gvars, rvars>>

\* a worker that takes the task enqueued last
TP_worker_check_lifo(w) ==
    /\ PoolType = "ThreadPool"
    /\ wk[w].pc = "check"
    /\ IF stop_ \/ tasks_ # <<>>
       THEN IF stop_ /\ tasks_ = <<>>
            THEN /\ wk' = [wk EXCEPT ![w].pc = "exit"]
                 /\ UNCHANGED <<tasks_, active_tasks_>>
            ELSE /\ wk' = [wk EXCEPT ![w].pc = "run", ![w].task = tasks_[Len(tasks_)]]
                 /\ tasks_' = SubSeq(tasks_, 1, Len(tasks_) - 1)
                 /\ active_tasks_' = active_tasks_ + 1
       ELSE /\ wk' = [wk EXCEPT ![w].pc = "blocked"]
            /\ UNCHANGED <<tasks_, active_tasks_>>
    /\ UNCHANGED <<PoolType, stop_, worker_queues_, overflow_tasks_,
                   next_victim_, completed_tasks_, stolen_tasks_,
                   sub, main, n_tasks, tk, dvars, svars, fvars, evars, gvars, rvars>>

\* worker_function, under queue_mutex_: condition_.wait(lock, stop_ ||
\* !tasks_.empty()); with the predicate true the worker returns (stop_ and
\* nothing queued) or takes the front task and counts itself active; with it
\* false the worker blocks
TP_worker_check(w) ==
    /\ PoolType = "ThreadPool"
    /\ wk[w].pc = "check"
    /\ IF stop_ \/ tasks_ # <<>>
       THEN IF stop_ /\ tasks_ = <<>>
            THEN /\ wk' = [wk EXCEPT ![w].pc = "exit"]
                 /\ UNCHANGED <<tasks_, active_tasks_>>
            ELSE /\ wk' = [wk EXCEPT ![w].pc = "run", ![w].task = Head(tasks_)]
                 /\ tasks_' = Tail(tasks_)
                 /\ active_tasks_' = active_tasks_ + 1
       ELSE /\ wk' = [wk EXCEPT ![w].pc = "blocked"]
            /\ UNCHANGED <<tasks_, active_tasks_>>
    /\ UNCHANGED <<PoolType, stop_, worker_queues_, overflow_tasks_,
                   next_victim_, completed_tasks_, stolen_tasks_,
                   sub, main, n_tasks, tk, dvars, svars, fvars, evars, gvars, rvars>>

\* a worker that unmarks itself and does not count the task
TP_worker_finish_uncounted(w) ==
    /\ PoolType = "ThreadPool"
    /\ wk[w].pc = "finish"
    /\ active_tasks_' = active_tasks_ - 1
    /\ wk' = [wk EXCEPT ![w].pc = "notify"]
    /\ UNCHANGED completed_tasks_
    /\ UNCHANGED <<PoolType, stop_, worker_queues_, overflow_tasks_, tasks_,
                   next_victim_, stolen_tasks_, sub, main, n_tasks, tk, dvars, svars, fvars, evars, gvars, rvars>>

\* after the task, under queue_mutex_: --active_tasks_; ++completed_tasks_
TP_worker_finish(w) ==
    /\ PoolType = "ThreadPool"
    /\ wk[w].pc = "finish"
    /\ active_tasks_' = active_tasks_ - 1
    /\ completed_tasks_' = completed_tasks_ + 1
    /\ wk' = [wk EXCEPT ![w].pc = "notify"]
    /\ UNCHANGED <<PoolType, stop_, worker_queues_, overflow_tasks_, tasks_,
                   next_victim_, stolen_tasks_, sub, main, n_tasks, tk, dvars, svars, fvars, evars, gvars, rvars>>

\* task_finished_condition_.notify_all(), then the next round of the loop
TP_worker_notify(w) ==
    /\ PoolType = "ThreadPool"
    /\ wk[w].pc = "notify"
    /\ main' = NotifyWaiter
    /\ wk' = [wk EXCEPT ![w] = [WorkerStart(PoolType) EXCEPT !.raised = wk[w].raised]]
    /\ UNCHANGED <<PoolType, stop_, worker_queues_, overflow_tasks_, tasks_,
                   next_victim_, active_tasks_, completed_tasks_, stolen_tasks_,
                   sub, n_tasks, tk, dvars, svars, fvars, evars, gvars, rvars>>

\* Statistics get_statistics() const, under queue_mutex_
get_statistics ==
    [total_threads |-> NumThreads,
     active_threads |-> active_tasks_,
     pending_tasks |-> Len(tasks_),
     completed_tasks |-> completed_tasks_]

\* wait_for_tasks, under queue_mutex_: task_finished_condition_.wait(lock,
\* tasks_.empty() && active_tasks_ == 0); the waiter blocks with the lock held
\* until then, so no notification falls between the test and the blocking
TP_wait_check ==
    /\ PoolType = "ThreadPool"
    /\ main.pc = "wft_check"
    /\ main' = [main EXCEPT !.pc = IF tasks_ = <<>> /\ active_tasks_ = 0
                                   THEN "wft_ret" ELSE "wft_blocked"]
    /\ UNCHANGED <<PoolType, stop_, worker_queues_, overflow_tasks_, tasks_,
                   next_victim_, active_tasks_, completed_tasks_, stolen_tasks_,
                   wk, sub, n_tasks, tk, dvars, svars, fvars, evars, gvars, rvars>>

\* shutdown(), first part, under queue_mutex_: a call that finds stop_ set
\* returns at once, the first call sets it
TP_shutdown ==
    /\ PoolType = "ThreadPool"
    /\ main.pc = "idle"
    /\ main.calls < MaxShutdownCalls
    /\ IF stop_
       THEN main' = [main EXCEPT !.calls = @ + 1]
       ELSE main' = [main EXCEPT !.pc = "sd_notify"]
    /\ stop_' = TRUE
    /\ UNCHANGED <<PoolType, worker_queues_, overflow_tasks_, tasks_,
                   next_victim_, active_tasks_, completed_tasks_, stolen_tasks_,
                   wk, sub, n_tasks, tk, dvars, svars, fvars, evars, gvars, rvars>>

(***************************************************************************)
(* parallel_for_each (thread_pool.hpp).  The range is 0 .. total - 1; the  *)
(* chunk tasks go to the pool through submit, and the pool runs each       *)
(* accepted task once, at any time after it was submitted.                 *)
(***************************************************************************)
\* no parallel_for_each call is in progress
NotCalled ==
    [pc |-> "none", type |-> "none", total |-> 0, n |-> 0, chunk_size |-> 0,
     it |-> 0, futures |-> <<>>, waited |-> 0, ran |-> {},
     applied |-> [e \in {} |-> 0]]

\* HighPerformancePool: (std::max)(size_t(1), total_items / (num_threads_ * 4));
\* ThreadPool: one task per element
ChunkSize(type, total, n) ==
    IF type = "HighPerformancePool"
    THEN (IF total \div (n * 4) >= 1 THEN total \div (n * 4) ELSE 1)
    ELSE 1

\* the call parallel_for_each(begin, end, func) on a pool of n threads: an
\* empty range returns at once from the work-stealing pool
Pfe_called(type, total, n) ==
    [NotCalled EXCEPT
        !.pc = IF type = "HighPerformancePool" /\ total = 0 THEN "done" ELSE "submit",
        !.type = type, !.total = total, !.n = n,
        !.chunk_size = ChunkSize(type, total, n),
        !.applied = [e \in 0 .. total - 1 |-> 0]]

\* one round of the submission loop: the chunk [it, chunk_end) is submitted
\* and its future kept; after the last chunk the call starts waiting
Pfe_submit ==
    /\ pfe.pc = "submit"
    /\ IF pfe.it < pfe.total
       THEN LET chunk_end == Min(pfe.it + pfe.chunk_size, pfe.total)
            IN  pfe' = [pfe EXCEPT !.futures = Append(@, [first |-> pfe.it,
                                                          last |-> chunk_end]),
                                   !.it = chunk_end]
       ELSE pfe' = [pfe EXCEPT !.pc = "wait"]
    /\ UNCHANGED <<pvars, dvars, svars, evars, gvars, rvars>>

\* a worker of the pool runs a submitted chunk task: func(*chunk_it) for
\* every chunk_it of [first, last)
Pfe_chunk_run(i) ==
    /\ i \in 1 .. Len(pfe.futures)
    /\ i \notin pfe.ran
    /\ pfe' = [pfe EXCEPT
                 !.ran = @ \cup {i},
                 !.applied = [e \in DOMAIN pfe.applied |->
                                 IF pfe.futures[i].first <= e /\ e < pfe.futures[i].last
                                 THEN pfe.applied[e] + 1 ELSE pfe.applied[e]]]
    /\ UNCHANGED <<pvars, dvars, svars, evars, gvars, rvars>>

\* a wait loop that does not block on the futures
Pfe_wait_none ==
    /\ pfe.pc = "wait"
    /\ pfe' = [pfe EXCEPT !.pc = "done", !.waited = Len(pfe.futures)]
    /\ UNCHANGED <<pvars, dvars, svars, evars, gvars, rvars>>

\* for (auto &future : futures) future.wait(): the next future is ready, or
\* all have been waited for and the call returns
Pfe_wait ==
    /\ pfe.pc = "wait"
    /\ IF pfe.waited < Len(pfe.futures)
       THEN /\ pfe.waited + 1 \in pfe.ran
            /\ pfe' = [pfe EXCEPT !.waited = @ + 1]
       ELSE pfe' = [pfe EXCEPT !.pc = "done"]
    /\ UNCHANGED <<pvars, dvars, svars, evars, gvars, rvars>>

(***************************************************************************)
(* HighPerformancePoolWithErrors, FastThreadPoolWithErrors,                *)
(* ThreadPoolWithErrors and their ErrorHandler.  The three wrappers have   *)
(* the same submit; the pool each owns is a queue served by the workers.   *)
(***************************************************************************)
ErrTasks == 1 .. MaxErrTasks

\* what a registered callback does when invoked
CallbackKinds == {"returns", "throws"}

\* a wrapped task before it is submitted
NotSubmitted ==
    [body |-> "value", handle |-> "none", cause |-> 0, calls |-> <<>>,
     counted |-> 0, seen |-> 0]

\* a worker thread of the owned pool outside any task
ErrWorkerIdle == [pc |-> "idle", task |-> 0, error |-> 0, i |-> 0]

\* *WithErrors(num_threads): the owned pool and a fresh ErrorHandler
ErrConstructed ==
    /\ callbacks_ = <<>>
    /\ error_count_ = 0
    /\ handler_mutex_ = -1
    /\ wrapped = [t \in ErrTasks |-> NotSubmitted]
    /\ pool_queue = <<>>
    /\ ew = [w \in Workers |-> ErrWorkerIdle]

\* the tasks submitted so far
ErrSubmitted == {t \in ErrTasks : wrapped[t].handle # "none"}

\* ErrorHandler::add_callback, under mutex_
add_callback(kind) ==
    /\ handler_mutex_ = -1
    /\ Len(callbacks_) < MaxCallbacks
    /\ callbacks_' = Append(callbacks_, kind)
    /\ UNCHANGED <<error_count_, handler_mutex_, wrapped, pool_queue, ew,
                   pvars, dvars, svars, fvars, gvars, rvars>>

\* ErrorHandler::clear_callbacks, under mutex_
clear_callbacks ==
    /\ handler_mutex_ = -1
    /\ callbacks_ # <<>>
    /\ callbacks_' = <<>>
    /\ UNCHANGED <<error_count_, handler_mutex_, wrapped, pool_queue, ew,
                   pvars, dvars, svars, fvars, gvars, rvars>>

\* submit(f, args...): the wrapped task goes to the owned pool, the future of
\* its packaged_task comes back inside a FutureWithErrorHandler
Err_submit(body) ==
    /\ Cardinality(ErrSubmitted) < MaxErrTasks
    /\ LET t == Cardinality(ErrSubmitted) + 1
       IN  /\ wrapped' = [wrapped EXCEPT ![t].body = body, ![t].handle = "pending"]
           /\ pool_queue' = Append(pool_queue, t)
    /\ UNCHANGED <<callbacks_, error_count_, handler_mutex_, ew,
                   pvars, dvars, svars, fvars, gvars, rvars>>

\* a worker of the owned pool takes the next wrapped task
Err_worker_take(w) ==
    /\ ew[w].pc = "idle"
    /\ pool_queue # <<>>
    /\ ew' = [ew EXCEPT ![w].pc = "apply", ![w].task = Head(pool_queue)]
    /\ pool_queue' = Tail(pool_queue)
    /\ UNCHANGED <<callbacks_, error_count_, handler_mutex_, wrapped,
                   pvars, dvars, svars, fvars, gvars, rvars>>

\* the wrapped task: try { return std::apply(f, args); } and the value goes
\* into the future; catch (...) builds the TaskError of the failure raised
\* (the failure of task t is identified by t)
Err_apply(w) ==
    /\ ew[w].pc = "apply"
    /\ IF wrapped[ew[w].task].body = "value"
       THEN /\ wrapped' = [wrapped EXCEPT ![ew[w].task].handle = "value"]
            /\ ew' = [ew EXCEPT ![w] = ErrWorkerIdle]
       ELSE /\ ew' = [ew EXCEPT ![w].pc = "caught", ![w].error = ew[w].task]
            /\ UNCHANGED wrapped
    /\ UNCHANGED <<callbacks_, error_count_, handler_mutex_, pool_queue,
                   pvars, dvars, svars, fvars, gvars, rvars>>

\* ErrorHandler::handle_error, entry: lock_guard on mutex_; error_count_++.
\* counted and seen remember, for the task, that it was counted and how many
\* callbacks were registered at that moment
handle_error(w) ==
    /\ ew[w].pc = "caught"
    /\ handler_mutex_ = -1
    /\ handler_mutex_' = w
    /\ error_count_' = error_count_ + 1
    /\ wrapped' = [wrapped EXCEPT ![ew[w].task].counted = @ + 1,
                                  ![ew[w].task].seen = Len(callbacks_)]
    /\ ew' = [ew EXCEPT ![w].pc = "callbacks", ![w].i = 1]
    /\ UNCHANGED <<callbacks_, pool_queue, pvars, dvars, svars, fvars, gvars, rvars>>

\* a loop over the callbacks that a throwing callback ends
Err_callback_abort(w) ==
    /\ ew[w].pc = "callbacks"
    /\ ew[w].i <= Len(callbacks_)
    /\ wrapped' = [wrapped EXCEPT ![ew[w].task].calls =
                      Append(@, [cb |-> ew[w].i, kind |-> callbacks_[ew[w].i],
                                 cause |-> ew[w].error])]
    /\ ew' = [ew EXCEPT ![w].i = IF callbacks_[ew[w].i] = "throws"
                                  THEN Len(callbacks_) + 1 ELSE @ + 1]
    /\ UNCHANGED <<callbacks_, error_count_, handler_mutex_, pool_queue,
                   pvars, dvars, svars, fvars, gvars, rvars>>

\* handle_error, one round of the loop: try { callback(error); } catch (...)
\* {}: the callback is invoked with the TaskError, and whether it returns or
\* throws the loop goes on with the next one
Err_callback(w) ==
    /\ ew[w].pc = "callbacks"
    /\ ew[w].i <= Len(callbacks_)
    /\ wrapped' = [wrapped EXCEPT ![ew[w].task].calls =
                      Append(@, [cb |-> ew[w].i, kind |-> callbacks_[ew[w].i],
                                 cause |-> ew[w].error])]
    /\ ew' = [ew EXCEPT ![w].i = @ + 1]
    /\ UNCHANGED <<callbacks_, error_count_, handler_mutex_, pool_queue,
                   pvars, dvars, svars, fvars, gvars, rvars>>

\* handle_error returns: the loop is over and mutex_ released
Err_handle_return(w) ==
    /\ ew[w].pc = "callbacks"
    /\ ew[w].i > Len(callbacks_)
    /\ handler_mutex_' = -1
    /\ ew' = [ew EXCEPT ![w].pc = "rethrow"]
    /\ UNCHANGED <<callbacks_, error_count_, wrapped, pool_queue,
                   pvars, dvars, svars, fvars, gvars, rvars>>

\* throw; : the failure caught leaves the wrapped task and the packaged_task
\* stores it in the future
Err_rethrow(w) ==
    /\ ew[w].pc = "rethrow"
    /\ wrapped' = [wrapped EXCEPT ![ew[w].task].handle = "exception",
                                  ![ew[w].task].cause = ew[w].error]
    /\ ew' = [ew EXCEPT ![w] = ErrWorkerIdle]
    /\ UNCHANGED <<callbacks_, error_count_, handler_mutex_, pool_queue,
                   pvars, dvars, svars, fvars, gvars, rvars>>

(***************************************************************************)
(* HighPerformancePool::submit and ::submit_batch on a running pool of     *)
(* num_threads_ workers: where each task is placed.  Every task is the     *)
(* same closure (1); the workers take tasks out of their own buffers while *)
(* the call runs.                                                          *)
(***************************************************************************)
\* no call of submit / submit_batch has begun
NoCall ==
    [pc |-> "idle", kind |-> "none", preferred |-> 0, queue_idx |-> 0,
     attempts |-> 0, tried |-> {}, left |-> 0, placed |-> <<>>]

\* HighPerformancePool(num_threads): one WorkStealingDeque per worker
Constructed(num_threads) ==
    [num_threads_ |-> num_threads,
     worker_queues_ |-> [i \in 0 .. num_threads - 1 |-> EmptyDeque(PlaceCapacity)],
     overflow_tasks_ |-> <<>>,
     next_victim_ |-> 0,
     call |-> NoCall]

\* where an item went (a buffer index, or -1 for the overflow queue) and the
\* buffers whose push had returned false for it before
PlacedAt(idx, tried) == [at |-> idx, tried |-> tried]

\* submit: preferred_queue = next_victim_.fetch_add(1) % num_threads_
Place_submit_fetch ==
    /\ place.call.pc = "idle"
    /\ place.next_victim_ < MaxVictim
    /\ place' = [place EXCEPT
           !.next_victim_ = @ + 1,
           !.call = [NoCall EXCEPT !.pc = "push", !.kind = "submit", !.left = 1,
                                   !.preferred = place.next_victim_ % place.num_threads_]]
    /\ UNCHANGED <<pvars, dvars, svars, fvars, evars, rvars>>

\* submit: the push into the preferred queue
Place_submit_push ==
    /\ place.call.pc = "push"
    /\ LET q == place.call.preferred
           r == push(place.worker_queues_[q], 1)
       IN  IF r.ok
           THEN place' = [place EXCEPT
                    !.worker_queues_[q] = r.dq,
                    !.call.pc = "idle", !.call.left = 0,
                    !.call.placed = <<PlacedAt(q, place.call.tried)>>]
           ELSE place' = [place EXCEPT
                    !.call.pc = "try", !.call.attempts = 0,
                    !.call.tried = @ \cup {q}]
    /\ UNCHANGED <<pvars, dvars, svars, fvars, evars, rvars>>

\* submit: one round of the loop for (attempts = 0; attempts <
\* min(num_threads_, 3); ++attempts) over idx = (preferred_queue + attempts
\* + 1) % num_threads_
Place_submit_try ==
    /\ place.call.pc = "try"
    /\ LET idx == (place.call.preferred + place.call.attempts + 1) % place.num_threads_
           r == push(place.worker_queues_[idx], 1)
       IN  IF r.ok
           THEN place' = [place EXCEPT
                    !.worker_queues_[idx] = r.dq,
                    !.call.pc = "idle", !.call.left = 0,
                    !.call.placed = <<PlacedAt(idx, place.call.tried)>>]
           ELSE place' = [place EXCEPT
                    !.call.attempts = @ + 1,
                    !.call.tried = @ \cup {idx},
                    !.call.pc = IF place.call.attempts + 1 < Min(place.num_threads_, 3)
                                THEN "try" ELSE "overflow"]
    /\ UNCHANGED <<pvars, dvars, svars, fvars, evars, rvars>>

\* submit: under overflow_mutex_ the task goes into the overflow queue
Place_submit_overflow ==
    /\ place.call.pc = "overflow"
    /\ place' = [place EXCEPT
           !.overflow_tasks_ = Append(@, 1),
           !.call.pc = "idle", !.call.left = 0,
           !.call.placed = <<PlacedAt(-1, place.call.tried)>>]
    /\ UNCHANGED <<pvars, dvars, svars, fvars, evars, rvars>>

\* submit_batch of batch_size items:
\* queue_idx = next_victim_.fetch_add(batch_size) % num_threads_
Place_batch_fetch(batch_size) ==
    /\ place.call.pc = "idle"
    /\ place.next_victim_ < MaxVictim
    /\ place' = [place EXCEPT
           !.next_victim_ = @ + batch_size,
           !.call = [NoCall EXCEPT !.pc = "b_push", !.kind = "batch",
                                   !.left = batch_size,
                                   !.queue_idx = place.next_victim_ % place.num_threads_]]
    /\ UNCHANGED <<pvars, dvars, svars, fvars, evars, rvars>>

\* the call after one more item was placed: the next item, or return
BatchItemPlaced(c, idx) ==
    [c EXCEPT !.placed = Append(@, PlacedAt(idx, c.tried)),
              !.left = @ - 1, !.attempts = 0, !.tried = {},
              !.pc = IF c.left = 1 THEN "idle" ELSE "b_push"]

\* submit_batch: one round of the inner loop, for (attempts = 0; attempts <
\* num_threads_; ++attempts): a push into worker_queues_[queue_idx]; break
\* after a success, queue_idx = (queue_idx + 1) % num_threads_ after a failure
Place_batch_push ==
    /\ place.call.pc = "b_push"
    /\ LET q == place.call.queue_idx
           r == push(place.worker_queues_[q], 1)
       IN  IF r.ok
           THEN place' = [place EXCEPT
                    !.worker_queues_[q] = r.dq,
                    !.call = BatchItemPlaced(place.call, q)]
           ELSE place' = [place EXCEPT
                    !.call.queue_idx = (q + 1) % place.num_threads_,
                    !.call.attempts = @ + 1,
                    !.call.tried = @ \cup {q},
                    !.call.pc = IF place.call.attempts + 1 < place.num_threads_
                                THEN "b_push" ELSE "b_overflow"]
    /\ UNCHANGED <<pvars, dvars, svars, fvars, evars, rvars>>

\* submit_batch: if (!queued), under overflow_mutex_ the item goes into the
\* overflow queue
Place_batch_overflow ==
    /\ place.call.pc = "b_overflow"
    /\ place' = [place EXCEPT
           !.overflow_tasks_ = Append(@, 1),
           !.call = BatchItemPlaced(place.call, -1)]
    /\ UNCHANGED <<pvars, dvars, svars, fvars, evars, rvars>>

\* worker_function of worker q, step 1: a successful pop from its own buffer
Place_worker_pop(q) ==
    /\ q < place.num_threads_
    /\ LET r == pop(place.worker_queues_[q], NoTask)
       IN  /\ r.ok
           /\ place' = [place EXCEPT !.worker_queues_[q] = r.dq]
    /\ UNCHANGED <<pvars, dvars, svars, fvars, evars, rvars>>

\* worker_function, step 3: a worker takes the front of the overflow queue
Place_worker_overflow ==
    /\ place.overflow_tasks_ # <<>>
    /\ place' = [place EXCEPT !.overflow_tasks_ = Tail(@)]
    /\ UNCHANGED <<pvars, dvars, svars, fvars, evars, rvars>>

(***************************************************************************)
(* ThreadRegistry: register_current_thread (both overloads),               *)
(* unregister_current_thread, set_on_register, set_on_unregister.  Each    *)
(* runs under mutex_; a callback is invoked on a copy of the entry after   *)
(* the lock is released and does not touch the registry.                   *)
(***************************************************************************)
Tids == 1 .. MaxTids
ThreadNames == {"first-name", "second-name"}
ComponentTags == {"first-comp", "second-comp"}
\* the control blocks; 0 stands for no block (a null shared_ptr)
Blocks == 0 .. MaxBlocks

\* no entry under a thread id
NoEntry == [present |-> FALSE, name |-> "", componentTag |-> "", alive |-> FALSE,
            control |-> 0]

\* the RegisteredThreadInfo a registration builds
Entry(name, componentTag, control) ==
    [present |-> TRUE, name |-> name, componentTag |-> componentTag, alive |-> TRUE,
     control |-> control]

\* ThreadRegistry() = default
RegistryConstructed ==
    /\ threads_ = [tid \in Tids |-> NoEntry]
    /\ onRegister_ = FALSE
    /\ onUnregister_ = FALSE
    /\ reg_log = [calls |-> 0, op |-> "none", tid |-> 0, entry |-> NoEntry,
                  registered |-> 0, unregistered |-> 0]

\* the call is noted: which operation, on which thread id, with which entry
Logged(op, tid, entry, registered, unregistered) ==
    [calls |-> reg_log.calls + 1, op |-> op, tid |-> tid, entry |-> entry,
     registered |-> reg_log.registered + registered,
     unregistered |-> reg_log.unregistered + unregistered]

\* number of entries (query().count())
count == Cardinality({tid \in Tids : threads_[tid].present})

\* a registration that replaces the entry of a thread id already registered
register_last_wins(tid, info) ==
    /\ reg_log.calls < MaxRegCalls
    /\ threads_' = [threads_ EXCEPT ![tid] = info]
    /\ reg_log' = Logged("register", tid, info, IF onRegister_ THEN 1 ELSE 0, 0)
    /\ UNCHANGED <<onRegister_, onUnregister_>>
    /\ UNCHANGED <<pvars, dvars, svars, fvars, evars, gvars>>

\* the body both overloads of register_current_thread share: find(tid); if
\* absent emplace and invoke onRegister_ (if set) on a copy; else nothing
register(tid, info) ==
    /\ reg_log.calls < MaxRegCalls
    /\ IF ~threads_[tid].present
       THEN /\ threads_' = [threads_ EXCEPT ![tid] = info]
            /\ reg_log' = Logged("register", tid, info, IF onRegister_ THEN 1 ELSE 0, 0)
       ELSE /\ UNCHANGED threads_
            /\ reg_log' = Logged("register", tid, info, 0, 0)
    /\ UNCHANGED <<onRegister_, onUnregister_>>
    /\ UNCHANGED <<pvars, dvars, svars, fvars, evars, gvars>>

\* register_current_thread(name, componentTag), called by thread tid
register_current_thread(tid, name, componentTag) ==
    register(tid, Entry(name, componentTag, 0))

\* register_current_thread(controlBlock, name, componentTag): a null block
\* returns at once, else the thread id is the one of the block
register_current_thread_block(tid, controlBlock, name, componentTag) ==
    IF controlBlock = 0
    THEN /\ reg_log.calls < MaxRegCalls
         /\ reg_log' = Logged("null_block", tid, NoEntry, 0, 0)
         /\ UNCHANGED <<threads_, onRegister_, onUnregister_>>
         /\ UNCHANGED <<pvars, dvars, svars, fvars, evars, gvars>>
    ELSE register(tid, Entry(name, componentTag, controlBlock))

\* unregister_current_thread(), called by thread tid: the entry, if there is
\* one, is erased and onUnregister_ (if set) invoked on a copy of it
unregister_current_thread(tid) ==
    /\ reg_log.calls < MaxRegCalls
    /\ IF threads_[tid].present
       THEN /\ threads_' = [threads_ EXCEPT ![tid] = NoEntry]
            /\ reg_log' = Logged("unregister", tid, [threads_[tid] EXCEPT !.alive = FALSE],
                                 0, IF onUnregister_ THEN 1 ELSE 0)
       ELSE /\ UNCHANGED threads_
            /\ reg_log' = Logged("unregister", tid, NoEntry, 0, 0)
    /\ UNCHANGED <<onRegister_, onUnregister_>>
    /\ UNCHANGED <<pvars, dvars, svars, fvars, evars, gvars>>

\* set_on_register(cb): cb a callback or an empty std::function
set_on_register(cb) ==
    /\ reg_log.calls < MaxRegCalls
    /\ onRegister_' = cb
    /\ reg_log' = Logged("set_on_register", 0, NoEntry, 0, 0)
    /\ UNCHANGED <<threads_, onUnregister_>>
    /\ UNCHANGED <<pvars, dvars, svars, fvars, evars, gvars>>

\* set_on_unregister(cb)
set_on_unregister(cb) ==
    /\ reg_log.calls < MaxRegCalls
    /\ onUnregister_' = cb
    /\ reg_log' = Logged("set_on_unregister", 0, NoEntry, 0, 0)
    /\ UNCHANGED <<threads_, onRegister_>>
    /\ UNCHANGED <<pvars, dvars, svars, fvars, evars, gvars>>

(***************************************************************************)
(* ScheduledThreadPoolT<ThreadPool> (scheduled_pool.hpp).  mutex_ is held  *)
(* by the timer thread from the top of an iteration of scheduler_loop to   *)
(* its continue or to a wait, so schedule_*, shutdown() and the timer's    *)
(* iteration exclude one another; cancel() is a store to an atomic that    *)
(* takes no lock and interleaves with every step of the timer thread.      *)
(***************************************************************************)
Handles == 1 .. MaxHandles

\* a ScheduledTaskInfo that holds nothing (moved from)
NoInfo == [id |-> 0, next_run |-> 0, interval |-> 0, periodic |-> FALSE]

\* the timer thread does not hold mutex_
MutexFree == timer.pc \in {"top", "wait_empty", "wait_until", "done"}

\* std::multimap::insert: after the entries whose key is not greater
Insert(m, info) ==
    LET k == Cardinality({i \in 1 .. Len(m) : m[i].next_run <= info.next_run})
    IN  SubSeq(m, 1, k) \o <<info>> \o SubSeq(m, k + 1, Len(m))

\* the ids of the entries in the collection
Scheduled == {scheduled_tasks_[i].id : i \in 1 .. Len(scheduled_tasks_)}

\* the constructor: pool_, stop_(false), next_task_id_(1), scheduler_thread_
SchedConstructed ==
    /\ now = 0
    /\ scheduled_tasks_ = <<>>
    /\ next_task_id_ = 1
    /\ scheduler_stop_ = FALSE
    /\ handles = [id \in Handles |->
                    [kind |-> "none", cancelled |-> FALSE, early |-> FALSE,
                     submitted |-> 0, runs |-> 0, skipped |-> FALSE, d0 |-> 0,
                     cancels |-> 0, refused |-> FALSE]]
    /\ timer = [pc |-> "top", info |-> NoInfo, deadline |-> 0]
    /\ pool_ = [tasks |-> <<>>, stop |-> FALSE, running |-> 0]
    /\ closer = [pc |-> "idle", calls |-> 0]

\* a schedule_at that does not take mutex_
schedule_at_unlocked(time_point) ==
    /\ next_task_id_ <= MaxHandles
    /\ next_task_id_' = next_task_id_ + 1
    /\ scheduled_tasks_' =
          Insert(scheduled_tasks_, [id |-> next_task_id_, next_run |-> time_point,
                                    interval |-> 0, periodic |-> FALSE])
    /\ handles' = [handles EXCEPT ![next_task_id_].kind = "once"]
    /\ UNCHANGED <<now, scheduler_stop_, timer, pool_, closer, pvars, dvars, fvars, evars, gvars, rvars>>

\* schedule_at(time_point, task), reached from schedule_after too: any time
\* point, one that has passed included
schedule_at(time_point) ==
    /\ MutexFree
    /\ next_task_id_ <= MaxHandles
    /\ next_task_id_' = next_task_id_ + 1
    /\ scheduled_tasks_' =
          Insert(scheduled_tasks_, [id |-> next_task_id_, next_run |-> time_point,
                                    interval |-> 0, periodic |-> FALSE])
    /\ handles' = [handles EXCEPT ![next_task_id_].kind = "once"]
    /\ UNCHANGED <<now, scheduler_stop_, timer, pool_, closer, pvars, dvars, fvars, evars, gvars, rvars>>

\* schedule_periodic_after(initial_delay, interval, task), reached from
\* schedule_periodic too
schedule_periodic_after(initial_delay, interval) ==
    /\ MutexFree
    /\ next_task_id_ <= MaxHandles
    /\ next_task_id_' = next_task_id_ + 1
    /\ scheduled_tasks_' =
          Insert(scheduled_tasks_, [id |-> next_task_id_, next_run |-> now + initial_delay,
                                    interval |-> interval, periodic |-> TRUE])
    /\ handles' = [handles EXCEPT ![next_task_id_].kind = "periodic",
                                  ![next_task_id_].d0 = now + initial_delay]
    /\ UNCHANGED <<now, scheduler_stop_, timer, pool_, closer, pvars, dvars, fvars, evars, gvars, rvars>>

\* bool is_cancelled() const, on the handle or on any copy of it: all share
\* one flag
is_cancelled(id) == handles[id].cancelled

\* size_t scheduled_count() const, under mutex_
scheduled_count == Len(scheduled_tasks_)

\* a cancel that also takes the entry out of the collection
cancel_erase(id) ==
    /\ id < next_task_id_
    /\ handles[id].cancels < MaxCancels
    /\ handles' = [handles EXCEPT ![id].cancelled = TRUE,
                                  ![id].early = IF handles[id].cancelled THEN @
                                                ELSE id \in Scheduled,
                                  ![id].cancels = @ + 1]
    /\ scheduled_tasks_' = SelectSeq(scheduled_tasks_, LAMBDA e : e.id # id)
    /\ UNCHANGED <<now, next_task_id_, scheduler_stop_, timer,
                   pool_, closer, pvars, dvars, fvars, evars, gvars, rvars>>

\* a cancel that inverts the flag
cancel_toggle(id) ==
    /\ id < next_task_id_
    /\ handles[id].cancels < MaxCancels
    /\ handles' = [handles EXCEPT ![id].cancelled = ~@,
                                  ![id].cancels = @ + 1]
    /\ UNCHANGED <<now, scheduled_tasks_, next_task_id_, scheduler_stop_, timer,
                   pool_, closer, pvars, dvars, fvars, evars, gvars, rvars>>

\* ScheduledTaskHandle::cancel(), on the handle or on any copy of it, from
\* any thread: cancelled_->store(true).  early records that the entry was in
\* the collection when the flag was first set; cancels counts the calls.
cancel(id) ==
    /\ id < next_task_id_
    /\ handles[id].cancels < MaxCancels
    /\ handles' = [handles EXCEPT ![id].cancelled = TRUE,
                                  ![id].early = IF handles[id].cancelled THEN @
                                                ELSE id \in Scheduled,
                                  ![id].cancels = @ + 1]
    /\ UNCHANGED <<now, scheduled_tasks_, next_task_id_, scheduler_stop_, timer,
                   pool_, closer, pvars, dvars, fvars, evars, gvars, rvars>>

\* the clock advances
Tick ==
    /\ now < MaxTime
    /\ now' = now + 1
    /\ UNCHANGED <<scheduled_tasks_, next_task_id_, scheduler_stop_, handles, timer,
                   pool_, closer, pvars, dvars, fvars, evars, gvars, rvars>>

\* a loop that extracts the first entry whether it is due or not
Timer_examine_eager ==
    /\ timer' = [timer EXCEPT !.pc = "check", !.info = scheduled_tasks_[1]]
    /\ scheduled_tasks_' = Tail(scheduled_tasks_)

\* scheduler_loop with a non-empty collection, mutex_ held: the first entry
\* is waited for if it is not due, extracted and erased if it is
Timer_examine ==
    LET it == scheduled_tasks_[1]
    IN  IF it.next_run > now
        THEN /\ timer' = IF scheduler_stop_
                         THEN [timer EXCEPT !.pc = "done"]
                         ELSE [timer EXCEPT !.pc = "wait_until", !.deadline = it.next_run]
             /\ UNCHANGED scheduled_tasks_
        ELSE /\ timer' = [timer EXCEPT !.pc = "check", !.info = it]
             /\ scheduled_tasks_' = Tail(scheduled_tasks_)

\* the top of an iteration: lock, wait if the collection is empty
Timer_take ==
    /\ timer.pc = "top"
    /\ IF scheduled_tasks_ = <<>>
       THEN /\ timer' = [timer EXCEPT !.pc = IF scheduler_stop_ THEN "done" ELSE "wait_empty"]
            /\ UNCHANGED scheduled_tasks_
       ELSE Timer_examine
    /\ UNCHANGED <<now, next_task_id_, scheduler_stop_, handles, pool_, closer,
                   pvars, dvars, fvars, evars, gvars, rvars>>

\* condition_.wait(lock, stop_ || !scheduled_tasks_.empty()) returns
Timer_wake_empty ==
    /\ timer.pc = "wait_empty"
    /\ scheduler_stop_ \/ scheduled_tasks_ # <<>>
    /\ IF scheduler_stop_
       THEN /\ timer' = [timer EXCEPT !.pc = "done"]
            /\ UNCHANGED scheduled_tasks_
       ELSE Timer_examine
    /\ UNCHANGED <<now, next_task_id_, scheduler_stop_, handles, pool_, closer,
                   pvars, dvars, fvars, evars, gvars, rvars>>

\* condition_.wait_until(lock, it->first, stop_) returns: stop_ is set or the
\* time point is reached; an insertion does not end this wait
Timer_wake_until ==
    /\ timer.pc = "wait_until"
    /\ scheduler_stop_ \/ now >= timer.deadline
    /\ timer' = [timer EXCEPT !.pc = IF scheduler_stop_ THEN "done" ELSE "top",
                              !.deadline = 0]
    /\ UNCHANGED <<now, scheduled_tasks_, next_task_id_, scheduler_stop_, handles,
                   pool_, closer, pvars, dvars, fvars, evars, gvars, rvars>>

\* an iteration that submits every extracted entry, cancelled or not
Timer_check_cancelled_none ==
    /\ timer.pc = "check"
    /\ timer' = [timer EXCEPT !.pc = "submit"]
    /\ UNCHANGED <<now, scheduled_tasks_, next_task_id_, scheduler_stop_, handles,
                   pool_, closer, pvars, dvars, fvars, evars, gvars, rvars>>

\* if (info.cancelled->load()) continue;
Timer_check_cancelled ==
    /\ timer.pc = "check"
    /\ timer' = IF handles[timer.info.id].cancelled
                THEN [timer EXCEPT !.pc = "top", !.info = NoInfo]
                ELSE [timer EXCEPT !.pc = "submit"]
    /\ UNCHANGED <<now, scheduled_tasks_, next_task_id_, scheduler_stop_, handles,
                   pool_, closer, pvars, dvars, fvars, evars, gvars, rvars>>

\* thread_pool().shutdown(), called directly on the pool the scheduler owns:
\* ThreadPool::shutdown sets the stop flag of the pool; its workers finish
\* what is queued
Pool_shutdown_direct ==
    /\ ~pool_.stop
    /\ pool_' = [pool_ EXCEPT !.stop = TRUE]
    /\ UNCHANGED <<now, scheduled_tasks_, next_task_id_, scheduler_stop_, handles,
                   timer, closer, pvars, dvars, fvars, evars, gvars, rvars>>

\* a loop without its try / catch: the failure of pool_.submit leaves
\* scheduler_loop and ends the timer thread
Timer_submit_uncaught ==
    /\ timer.pc = "submit"
    /\ IF pool_.stop
       THEN /\ timer' = [timer EXCEPT !.pc = "done", !.info = NoInfo]
            /\ handles' = [handles EXCEPT ![timer.info.id].refused = TRUE]
            /\ UNCHANGED pool_
       ELSE /\ pool_' = [pool_ EXCEPT !.tasks = Append(@, timer.info.id)]
            /\ handles' = [handles EXCEPT ![timer.info.id].submitted = Min(@ + 1, MaxFirings)]
            /\ timer' = [timer EXCEPT !.pc = "resched"]
    /\ UNCHANGED <<now, scheduled_tasks_, next_task_id_, scheduler_stop_, closer,
                   pvars, dvars, fvars, evars, gvars, rvars>>

\* pool_.submit(closure): ThreadPool::submit throws when the pool is stopped
\* (caught by the catch (...) of the loop, which goes on with its next
\* iteration: the entry is gone, the reschedule skipped), else queues the
\* closure.  refused records that the submission of the entry failed,
\* submitted counts the hand-overs of the entry (up to MaxFirings).
Timer_submit ==
    /\ timer.pc = "submit"
    /\ IF pool_.stop
       THEN /\ timer' = [timer EXCEPT !.pc = "top", !.info = NoInfo]
            /\ handles' = [handles EXCEPT ![timer.info.id].refused = TRUE]
            /\ UNCHANGED pool_
       ELSE /\ pool_' = [pool_ EXCEPT !.tasks = Append(@, timer.info.id)]
            /\ handles' = [handles EXCEPT ![timer.info.id].submitted = Min(@ + 1, MaxFirings)]
            /\ timer' = [timer EXCEPT !.pc = "resched"]
    /\ UNCHANGED <<now, scheduled_tasks_, next_task_id_, scheduler_stop_, closer,
                   pvars, dvars, fvars, evars, gvars, rvars>>

\* a fixed-delay reschedule: the next deadline counted from the present time
Timer_reschedule_from_now ==
    /\ timer.pc = "resched"
    /\ scheduled_tasks_' =
          IF timer.info.periodic /\ ~handles[timer.info.id].cancelled
          THEN Insert(scheduled_tasks_,
                      [timer.info EXCEPT !.next_run = now + timer.info.interval])
          ELSE scheduled_tasks_
    /\ timer' = [timer EXCEPT !.pc = "top", !.info = NoInfo]
    /\ UNCHANGED <<now, next_task_id_, scheduler_stop_, handles, pool_, closer,
                   pvars, dvars, fvars, evars, gvars, rvars>>

\* a reschedule that does not look at the cancelled flag
Timer_reschedule_always ==
    /\ timer.pc = "resched"
    /\ scheduled_tasks_' =
          IF timer.info.periodic
          THEN Insert(scheduled_tasks_,
                      [timer.info EXCEPT !.next_run = @ + timer.info.interval])
          ELSE scheduled_tasks_
    /\ timer' = [timer EXCEPT !.pc = "top", !.info = NoInfo]
    /\ UNCHANGED <<now, next_task_id_, scheduler_stop_, handles, pool_, closer,
                   pvars, dvars, fvars, evars, gvars, rvars>>

\* if (info.periodic && !info.cancelled->load()) { next_run += interval; insert }
Timer_reschedule ==
    /\ timer.pc = "resched"
    /\ scheduled_tasks_' =
          IF timer.info.periodic /\ ~handles[timer.info.id].cancelled
          THEN Insert(scheduled_tasks_,
                      [timer.info EXCEPT !.next_run = @ + timer.info.interval])
          ELSE scheduled_tasks_
    /\ timer' = [timer EXCEPT !.pc = "top", !.info = NoInfo]
    /\ UNCHANGED <<now, next_task_id_, scheduler_stop_, handles, pool_, closer,
                   pvars, dvars, fvars, evars, gvars, rvars>>

\* a worker that runs the task of every closure, cancelled or not
Pool_take_unchecked ==
    /\ pool_.tasks # <<>>
    /\ pool_.running = 0
    /\ pool_' = [pool_ EXCEPT !.tasks = Tail(@), !.running = Head(pool_.tasks)]
    /\ handles' = [handles EXCEPT ![Head(pool_.tasks)].runs = Min(@ + 1, MaxFirings)]
    /\ UNCHANGED <<now, scheduled_tasks_, next_task_id_, scheduler_stop_, timer,
                   closer, pvars, dvars, fvars, evars, gvars, rvars>>

\* the worker of the inner pool (the model gives it one) takes the next
\* closure and calls it: the closure loads the cancelled flag and, if it is
\* not set, enters task_copy(); runs counts the bodies entered (up to
\* MaxFirings)
Pool_take ==
    /\ pool_.tasks # <<>>
    /\ pool_.running = 0
    /\ LET id == Head(pool_.tasks)
       IN  IF handles[id].cancelled
           THEN /\ pool_' = [pool_ EXCEPT !.tasks = Tail(@)]
                /\ handles' = [handles EXCEPT ![id].skipped = TRUE]
           ELSE /\ pool_' = [pool_ EXCEPT !.tasks = Tail(@), !.running = id]
                /\ handles' = [handles EXCEPT ![id].runs = Min(@ + 1, MaxFirings)]
    /\ UNCHANGED <<now, scheduled_tasks_, next_task_id_, scheduler_stop_, timer,
                   closer, pvars, dvars, fvars, evars, gvars, rvars>>

\* task_copy() returns; the worker is free for the next closure
Pool_finish ==
    /\ pool_.running # 0
    /\ pool_' = [pool_ EXCEPT !.running = 0]
    /\ UNCHANGED <<now, scheduled_tasks_, next_task_id_, scheduler_stop_, handles,
                   timer, closer, pvars, dvars, fvars, evars, gvars, rvars>>

\* shutdown(), under mutex_: if (stop_) return; stop_ = true
Sched_shutdown ==
    /\ closer.pc = "idle"
    /\ closer.calls < MaxShutdownCalls
    /\ MutexFree
    /\ IF scheduler_stop_
       THEN closer' = [closer EXCEPT !.calls = @ + 1]
       ELSE closer' = [closer EXCEPT !.pc = "notify"]
    /\ scheduler_stop_' = TRUE
    /\ UNCHANGED <<now, scheduled_tasks_, next_task_id_, handles, timer, pool_,
                   pvars, dvars, fvars, evars, gvars, rvars>>

\* condition_.notify_one(): the waits of the timer thread test stop_
Sched_notify ==
    /\ closer.pc = "notify"
    /\ closer' = [closer EXCEPT !.pc = "join"]
    /\ UNCHANGED <<now, scheduled_tasks_, next_task_id_, scheduler_stop_, handles,
                   timer, pool_, pvars, dvars, fvars, evars, gvars, rvars>>

\* a shutdown that stops the pool without joining the timer thread first
Sched_join_none ==
    /\ closer.pc = "join"
    /\ closer' = [closer EXCEPT !.pc = "pool_join"]
    /\ pool_' = [pool_ EXCEPT !.stop = TRUE]
    /\ UNCHANGED <<now, scheduled_tasks_, next_task_id_, scheduler_stop_, handles,
                   timer, pvars, dvars, fvars, evars, gvars, rvars>>

\* scheduler_thread_.join(), then pool_.shutdown() sets the stop flag of the pool
Sched_join ==
    /\ closer.pc = "join"
    /\ timer.pc = "done"
    /\ closer' = [closer EXCEPT !.pc = "pool_join"]
    /\ pool_' = [pool_ EXCEPT !.stop = TRUE]
    /\ UNCHANGED <<now, scheduled_tasks_, next_task_id_, scheduler_stop_, handles,
                   timer, pvars, dvars, fvars, evars, gvars, rvars>>

\* pool_.shutdown() joins the workers, which leave when the queue is empty
Sched_pool_joined ==
    /\ closer.pc = "pool_join"
    /\ pool_.tasks = <<>> /\ pool_.running = 0
    /\ closer' = [closer EXCEPT !.pc = "idle", !.calls = @ + 1]
    /\ UNCHANGED <<now, scheduled_tasks_, next_task_id_, scheduler_stop_, handles,
                   timer, pool_, pvars, dvars, fvars, evars, gvars, rvars>>

Timer ==
    \/ Timer_take
    \/ Timer_wake_empty
    \/ Timer_wake_until
    \/ Timer_check_cancelled
    \/ Timer_submit
    \/ Timer_reschedule

Client ==
    \/ \E time_point \in 0 .. MaxTime : schedule_at(time_point)
    \/ \E initial_delay \in 0 .. 1, interval \in 1 .. MaxInterval :
          schedule_periodic_after(initial_delay, interval)
    \/ \E id \in Handles : ~is_cancelled(id) /\ cancel(id)

Closer ==
    \/ Sched_shutdown
    \/ Sched_notify
    \/ Sched_join
    \/ Sched_pool_joined

SchedNext ==
    \/ Timer
    \/ Client
    \/ Closer
    \/ Pool_take
    \/ Pool_finish
    \/ Tick

SchedInit ==
    /\ SchedConstructed
    /\ PoolConstructed("ThreadPool", {})
    /\ DequeInit
    /\ pfe = NotCalled
    /\ ErrConstructed
    /\ place = Constructed(NumThreads)
    /\ RegistryConstructed

SchedSpec == SchedInit /\ [][SchedNext]_vars

\* a scheduler that is given one-shot entries only and is not shut down
OneShotNext ==
    \/ Timer
    \/ \E time_point \in 0 .. MaxTime : schedule_at(time_point)
    \/ \E id \in Handles : cancel(id)
    \/ Pool_take
    \/ Pool_finish
    \/ Tick

\* the timer thread and the worker of the pool keep running, time passes
OneShotSpec ==
    /\ SchedInit
    /\ [][OneShotNext]_vars
    /\ WF_vars(Timer)
    /\ WF_vars(Pool_take \/ Pool_finish)
    /\ WF_vars(Tick)

\* a scheduler that is not shut down while the pool it owns is shut down
\* directly
DirectNext ==
    \/ Timer
    \/ \E time_point \in 0 .. MaxTime : schedule_at(time_point)
    \/ \E initial_delay \in 0 .. 1, interval \in 1 .. MaxInterval :
          schedule_periodic_after(initial_delay, interval)
    \/ Pool_take
    \/ Pool_finish
    \/ Tick
    \/ Pool_shutdown_direct

\* the timer thread and the worker of the pool keep running, time passes
DirectSpec ==
    /\ SchedInit
    /\ [][DirectNext]_vars
    /\ WF_vars(Timer)
    /\ WF_vars(Pool_take \/ Pool_finish)
    /\ WF_vars(Tick)

\* a scheduler that is given one-shot and periodic entries (of a positive
\* interval), whose handles are cancelled, and that is not shut down
PeriodicNext ==
    \/ Timer
    \/ \E time_point \in 0 .. MaxTime : schedule_at(time_point)
    \/ \E initial_delay \in 0 .. 1, interval \in 1 .. MaxInterval :
          schedule_periodic_after(initial_delay, interval)
    \/ \E id \in Handles : ~is_cancelled(id) /\ cancel(id)
    \/ Pool_take
    \/ Pool_finish
    \/ Tick

\* the timer thread and the worker of the pool keep running, time passes
PeriodicSpec ==
    /\ SchedInit
    /\ [][PeriodicNext]_vars
    /\ WF_vars(Timer)
    /\ WF_vars(Pool_take \/ Pool_finish)
    /\ WF_vars(Tick)

\* a registry whose threads register and unregister themselves
RegistryInit ==
    /\ RegistryConstructed
    /\ PoolConstructed("ThreadPool", {})
    /\ DequeInit
    /\ SchedConstructed
    /\ pfe = NotCalled
    /\ ErrConstructed
    /\ place = Constructed(NumThreads)

RegistryNext ==
    \/ \E tid \in Tids, name \in ThreadNames, componentTag \in ComponentTags :
          register_current_thread(tid, name, componentTag)
    \/ \E tid \in Tids, controlBlock \in Blocks, name \in ThreadNames,
          componentTag \in ComponentTags :
          register_current_thread_block(tid, controlBlock, name, componentTag)
    \/ \E tid \in Tids : unregister_current_thread(tid)
    \/ \E cb \in BOOLEAN : set_on_register(cb)
    \/ \E cb \in BOOLEAN : set_on_unregister(cb)

RegistrySpec == RegistryInit /\ [][RegistryNext]_vars

\* a scheduler that is given one-shot and periodic entries, the interval of
\* a periodic entry being any duration, zero included, and that is not shut
\* down.  The worker of the pool keeps up with the timer thread: the queue
\* of the pool does not grow beyond MaxPoolQueue.
AnyIntervalTimer == Timer /\ Len(pool_'.tasks) <= MaxPoolQueue

AnyIntervalNext ==
    \/ AnyIntervalTimer
    \/ \E time_point \in 0 .. MaxTime : schedule_at(time_point)
    \/ \E initial_delay \in 0 .. 1, interval \in 0 .. MaxInterval :
          schedule_periodic_after(initial_delay, interval)
    \/ Pool_take
    \/ Pool_finish
    \/ Tick

\* the timer thread and the worker of the pool keep running, time passes
AnyIntervalSpec ==
    /\ SchedInit
    /\ [][AnyIntervalNext]_vars
    /\ WF_vars(AnyIntervalTimer)
    /\ WF_vars(Pool_take \/ Pool_finish)
    /\ WF_vars(Tick)

\* a scheduler that is given one-shot entries and is shut down
ShutdownNext ==
    \/ OneShotNext
    \/ Closer

\* the timer thread, the worker of the pool and the thread in shutdown()
\* keep running (time need not pass)
ShutdownSpec ==
    /\ SchedInit
    /\ [][ShutdownNext]_vars
    /\ WF_vars(Timer)
    /\ WF_vars(Pool_take \/ Pool_finish)
    /\ WF_vars(Closer)

(***************************************************************************)
(* A pool with its workers, the threads submitting to it and its owner.    *)
(***************************************************************************)
\* any of the three pools, one thread submitting to it, and its owner
\* submit calls, one after the other, on a pool of 1 .. MaxQueues workers
PlaceInit ==
    /\ \E num_threads \in 1 .. MaxQueues : place = Constructed(num_threads)
    /\ RegistryConstructed
    /\ PoolConstructed("HighPerformancePool", {})
    /\ DequeInit
    /\ SchedConstructed
    /\ pfe = NotCalled
    /\ ErrConstructed

PlaceNext ==
    \/ Place_submit_fetch
    \/ Place_submit_push
    \/ Place_submit_try
    \/ Place_submit_overflow
    \/ \E q \in 0 .. MaxQueues - 1 : Place_worker_pop(q)
    \/ Place_worker_overflow

PlaceSpec == PlaceInit /\ [][PlaceNext]_vars

\* submit_batch calls, one after the other, on a pool of 1 .. MaxBatchQueues
\* workers
BatchInit ==
    /\ \E num_threads \in 1 .. MaxBatchQueues : place = Constructed(num_threads)
    /\ RegistryConstructed
    /\ PoolConstructed("HighPerformancePool", {})
    /\ DequeInit
    /\ SchedConstructed
    /\ pfe = NotCalled
    /\ ErrConstructed

BatchNext ==
    \/ \E batch_size \in 2 .. MaxPlaceBatch : Place_batch_fetch(batch_size)
    \/ Place_batch_push
    \/ Place_batch_overflow
    \/ \E q \in 0 .. MaxBatchQueues - 1 : Place_worker_pop(q)
    \/ Place_worker_overflow

BatchSpec == BatchInit /\ [][BatchNext]_vars

ErrInit ==
    /\ ErrConstructed
    /\ place = Constructed(NumThreads)
    /\ RegistryConstructed
    /\ PoolConstructed("ThreadPool", {})
    /\ DequeInit
    /\ SchedConstructed
    /\ pfe = NotCalled

ErrNext ==
    \/ \E kind \in CallbackKinds : add_callback(kind)
    \/ clear_callbacks
    \/ \E body \in {"value", "exception"} : Err_submit(body)
    \/ \E w \in Workers :
          \/ Err_worker_take(w)
          \/ Err_apply(w)
          \/ handle_error(w)
          \/ Err_callback(w)
          \/ Err_handle_return(w)
          \/ Err_rethrow(w)

ErrSpec == ErrInit /\ [][ErrNext]_vars

PfeInit ==
    /\ \E type \in {"HighPerformancePool", "ThreadPool"},
          total \in 0 .. MaxRange, n \in 1 .. NumThreads :
          pfe = Pfe_called(type, total, n)
    /\ PoolConstructed("ThreadPool", {})
    /\ DequeInit
    /\ SchedConstructed
    /\ ErrConstructed
    /\ place = Constructed(NumThreads)
    /\ RegistryConstructed

PfeNext ==
    \/ Pfe_submit
    \/ \E i \in 1 .. MaxRange : Pfe_chunk_run(i)
    \/ Pfe_wait

PfeSpec == PfeInit /\ [][PfeNext]_vars

PoolInit ==
    /\ \E type \in PoolTypes : PoolConstructed(type, {"s1"})
    /\ DequeInit
    /\ SchedConstructed
    /\ pfe = NotCalled
    /\ ErrConstructed
    /\ place = Constructed(NumThreads)
    /\ RegistryConstructed

HP_Submitter(s) ==
    \/ HP_submit_check(s)
    \/ HP_submit_fetch(s)
    \/ HP_submit_push(s)
    \/ HP_submit_try(s)
    \/ HP_submit_overflow(s)
    \/ HP_batch_check(s)
    \/ HP_batch_fetch(s)
    \/ HP_batch_push(s)
    \/ HP_batch_overflow(s)

HP_Worker(w) ==
    \/ HP_worker_pop(w)
    \/ HP_worker_steal(w)
    \/ HP_worker_count_stolen(w)
    \/ HP_worker_overflow(w)
    \/ HP_worker_begin(w)
    \/ HP_worker_end(w)
    \/ HP_worker_count(w)
    \/ HP_worker_notify(w)
    \/ HP_worker_check_stop(w)
    \/ HP_worker_wait(w)

Fast_Submitter(s) ==
    \/ Fast_submit(s)
    \/ Fast_submit_batch(s)

Fast_Worker(w) ==
    \/ Fast_worker_check(w)
    \/ Fast_worker_timeout(w)
    \/ Fast_worker_begin(w)
    \/ Fast_worker_end(w)
    \/ Fast_worker_count(w)

TP_Worker(w) ==
    \/ TP_worker_check(w)
    \/ TP_worker_finish(w)
    \/ TP_worker_notify(w)

Submitter(s) ==
    \/ HP_Submitter(s)
    \/ Fast_Submitter(s)
    \/ TP_submit(s)
    \/ Submit_notify_one(s)
    \/ Submit_notify_all(s)

Worker(w) ==
    \/ HP_Worker(w)
    \/ Fast_Worker(w)
    \/ TP_Worker(w)
    \/ Worker_run(w)

Owner ==
    \/ Main_wait_for_tasks
    \/ HP_wait_check
    \/ HP_wait_block
    \/ TP_wait_check
    \/ Main_wait_returned
    \/ HP_shutdown
    \/ Fast_shutdown
    \/ TP_shutdown
    \/ Shutdown_notify
    \/ Shutdown_join

Next ==
    \/ \E s \in Submitters : Submitter(s)
    \/ \E w \in Workers : Worker(w)
    \/ Owner

Spec == PoolInit /\ [][Next]_vars

\* the operating system keeps every worker thread running, and the owner
\* thread inside shutdown()
LiveSpec ==
    /\ Spec
    /\ \A w \in Workers : WF_vars(Worker(w))
    /\ WF_vars(Shutdown_notify \/ Shutdown_join)

(***************************************************************************)
(* A HighPerformancePool that is not shut down, with two threads           *)
(* submitting to it. Every worker thread keeps running (the scheduler of   *)
(* the operating system is fair to it) and so does every submit call.      *)
(***************************************************************************)
HP_RunInit ==
    /\ PoolConstructed("HighPerformancePool", {"s1", "s2"})
    /\ DequeInit
    /\ SchedConstructed
    /\ pfe = NotCalled
    /\ ErrConstructed
    /\ place = Constructed(NumThreads)
    /\ RegistryConstructed

HP_RunNext ==
    \/ \E s \in Submitters : HP_Submitter(s)
    \/ \E w \in Workers : HP_Worker(w) \/ Worker_run(w)

HP_RunSpec ==
    /\ HP_RunInit
    /\ [][HP_RunNext]_vars
    /\ \A w \in Workers : WF_vars(HP_Worker(w) \/ Worker_run(w))
    /\ \A s \in {"s1", "s2"} : WF_vars(sub[s].pc # "idle" /\ HP_Submitter(s))


(***************************************************************************)
(* A single-queue pool (FastThreadPool or ThreadPool) that is not shut     *)
(* down, with two threads submitting to it; worker threads and submit      *)
(* calls keep running.                                                     *)
(***************************************************************************)
SQ_RunInit ==
    /\ \E type \in {"FastThreadPool", "ThreadPool"} :
          PoolConstructed(type, {"s1", "s2"})
    /\ DequeInit
    /\ SchedConstructed
    /\ pfe = NotCalled
    /\ ErrConstructed
    /\ place = Constructed(NumThreads)
    /\ RegistryConstructed

SQ_Submitter(s) ==
    \/ Fast_Submitter(s)
    \/ TP_submit(s)
    \/ Submit_notify_one(s)
    \/ Submit_notify_all(s)

SQ_Worker(w) ==
    \/ Fast_Worker(w)
    \/ TP_Worker(w)
    \/ Worker_run(w)

SQ_RunNext ==
    \/ \E s \in Submitters : SQ_Submitter(s)
    \/ \E w \in Workers : SQ_Worker(w)

SQ_RunSpec ==
    /\ SQ_RunInit
    /\ [][SQ_RunNext]_vars
    /\ \A w \in Workers : WF_vars(SQ_Worker(w))
    /\ \A s \in {"s1", "s2"} : WF_vars(sub[s].pc # "idle" /\ SQ_Submitter(s))

(***************************************************************************)
(* A running pool whose task bodies never return: a worker that has begun  *)
(* a task stays inside it.  The submitting thread keeps running.           *)
(***************************************************************************)
StuckInit ==
    /\ \E type \in PoolTypes : PoolConstructed(type, {"s1"})
    /\ DequeInit
    /\ SchedConstructed
    /\ pfe = NotCalled
    /\ ErrConstructed
    /\ place = Constructed(NumThreads)
    /\ RegistryConstructed

\* worker_function up to the call of the task
StuckWorker(w) ==
    \/ HP_worker_pop(w)
    \/ HP_worker_steal(w)
    \/ HP_worker_count_stolen(w)
    \/ HP_worker_overflow(w)
    \/ HP_worker_begin(w)
    \/ HP_worker_check_stop(w)
    \/ HP_worker_wait(w)
    \/ Fast_worker_check(w)
    \/ Fast_worker_timeout(w)
    \/ Fast_worker_begin(w)
    \/ TP_worker_check(w)

StuckNext ==
    \/ \E s \in Submitters : Submitter(s)
    \/ \E w \in Workers : StuckWorker(w)

StuckSpec ==
    /\ StuckInit
    /\ [][StuckNext]_vars
    /\ \A s \in {"s1"} : WF_vars(Submitter(s))

(***************************************************************************)
(* A HighPerformancePool that is not shut down, one of whose tasks runs    *)
(* for longer than the pool is observed: the worker that has entered it    *)
(* stays inside it.  The other worker threads keep running, every submit   *)
(* call runs to its end, and the random choice of the victim is fair: a    *)
(* worker that tries to steal again and again while some other buffer      *)
(* holds a task hits such a buffer in the end.                             *)
(***************************************************************************)
\* the tasks whose body does not return
LongRunning == {1}

StealInit ==
    /\ PoolConstructed("HighPerformancePool", {"s1"})
    /\ DequeInit
    /\ SchedConstructed
    /\ pfe = NotCalled
    /\ ErrConstructed
    /\ place = Constructed(NumThreads)
    /\ RegistryConstructed

\* worker_function; the body of a long-running task does not return
StealWorker(w) ==
    \/ HP_Worker(w)
    \/ wk[w].task \notin LongRunning /\ Worker_run(w)

\* an attempt of the steal loop that draws a victim whose buffer holds a task
StealHit(w) == HP_worker_steal(w) /\ wk'[w].pc = "count_stolen"

StealNext ==
    \/ \E s \in Submitters : HP_Submitter(s)
    \/ \E w \in Workers : StealWorker(w)

StealSpec ==
    /\ StealInit
    /\ [][StealNext]_vars
    /\ \A w \in Workers : WF_vars(StealWorker(w))
    /\ \A w \in Workers : SF_vars(StealHit(w))
    /\ \A s \in {"s1"} : WF_vars(sub[s].pc # "idle" /\ HP_Submitter(s))

(***************************************************************************)
(* A HighPerformancePool that is not shut down and whose owner calls       *)
(* wait_for_tasks().  Worker threads, the submit calls and the thread      *)
(* inside wait_for_tasks keep running; every task body returns.            *)
(***************************************************************************)
WaitInit ==
    /\ PoolConstructed("HighPerformancePool", {"s1"})
    /\ DequeInit
    /\ SchedConstructed
    /\ pfe = NotCalled
    /\ ErrConstructed
    /\ place = Constructed(NumThreads)
    /\ RegistryConstructed

\* the thread inside wait_for_tasks
Waiter ==
    \/ HP_wait_check
    \/ HP_wait_block
    \/ Main_wait_returned

WaitNext ==
    \/ \E s \in Submitters : HP_Submitter(s)
    \/ \E w \in Workers : HP_Worker(w) \/ Worker_run(w)
    \/ Main_wait_for_tasks
    \/ Waiter

WaitSpec ==
    /\ WaitInit
    /\ [][WaitNext]_vars
    /\ \A w \in Workers : WF_vars(HP_Worker(w) \/ Worker_run(w))
    /\ \A s \in {"s1"} : WF_vars(sub[s].pc # "idle" /\ HP_Submitter(s))
    /\ WF_vars(Waiter)

DequeNext ==
    \/ DequePush
    \/ DequePop
    \/ \E th \in Thieves : DequeSteal(th)

DequeStart ==
    /\ DequeInit
    /\ PoolConstructed("ThreadPool", {})
    /\ SchedConstructed
    /\ pfe = NotCalled
    /\ ErrConstructed
    /\ place = Constructed(NumThreads)
    /\ RegistryConstructed

DequeSpec == DequeStart /\ [][DequeNext]_vars

\* the deque with, besides its owner and the thieves, a thread that calls
\* size() and empty()
DequeSizeNext ==
    \/ DequeNext
    \/ \E call \in {"size", "empty"} : Size_load_top(call)
    \/ Size_load_bottom

DequeSizeSpec == DequeStart /\ [][DequeSizeNext]_vars


\* pops and steals keep being attempted
DequeLiveSpec ==
    DequeSpec /\ WF_vars(DequePop \/ \E th \in Thieves : DequeSteal(th))

(***************************************************************************)
(* Claims about the stand-alone deque.                                     *)
(***************************************************************************)
\* the number of live slots (bottom_ .. top_ - 1) that hold task t
DequeHeld(t) ==
    Cardinality({i \in dq.bottom .. dq.top - 1 : dq.buffer[i % dq.capacity] = t})

\* every pushed task is either in exactly one live slot and not yet returned,
\* or in no slot and returned by exactly one call; a successful pop or steal
\* returns a pushed task
C2_ExactlyOne ==
    /\ \A t \in DOMAIN d_count : d_count[t] + DequeHeld(t) = 1
    /\ (d_res.ok /\ d_res.op \in {"pop", "steal"}) => d_res.item \in DOMAIN d_count

\* C2: at-most-once delivery. Under every interleaving of push, pop and
\* steal each pushed task is returned by exactly one successful pop or steal,
\* never by two, and while pops/steals keep being attempted every pushed task
\* is eventually returned.
C2_AtMostOnceDelivery ==
    /\ []C2_ExactlyOne
    /\ \A t \in 1 .. MaxPush :
          (t \in DOMAIN d_count) ~> (t \in DOMAIN d_count /\ d_count[t] = 1)

\* three tasks have been delivered once each, the last of them by a steal of
\* the second thief, with top_ beyond the capacity (the buffer has wrapped)
C2_Witness ==
    /\ dq.top > dq.capacity
    /\ \A t \in 1 .. 3 : t \in DOMAIN d_count /\ d_count[t] = 1
    /\ d_res.ok /\ d_res.by = "thief2"

\* C3: capacity invariant. The occupied count top - bottom stays within
\* 0 .. capacity in every reachable state: bottom never passes top and no
\* push goes beyond the capacity.
C3_CapacityInvariant ==
    /\ dq.bottom <= dq.top
    /\ dq.top - dq.bottom <= dq.capacity
    /\ size(dq) \in 0 .. dq.capacity

\* a push was refused on a full deque whose indices have wrapped around
C3_Witness ==
    /\ d_res.op = "push" /\ ~d_res.ok
    /\ dq.top - dq.bottom = dq.capacity
    /\ dq.bottom > 0 /\ dq.top > dq.capacity

(***************************************************************************)
(* Claims about the pools.                                                 *)
(***************************************************************************)
\* the tasks that went into a buffer or a queue
Accepted == {t \in Tasks : tk[t].queued # "no"}

\* the tasks whose completion handle is ready (a value or an exception)
Ready == {t \in Tasks : tk[t].handle \in {"value", "exception"}}

\* the tasks held by the buffers and queues of the pool
Buffered ==
    {t \in Tasks :
        \/ \E w \in Workers : \E i \in worker_queues_[w].bottom .. worker_queues_[w].top - 1 :
              worker_queues_[w].buffer[i % PoolCapacity] = t
        \/ \E i \in 1 .. Len(overflow_tasks_) : overflow_tasks_[i] = t
        \/ \E i \in 1 .. Len(tasks_) : tasks_[i] = t}

\* worker w has taken a task and has not yet counted it completed
Holding(w) ==
    wk[w].pc \in {"count_stolen", "begin", "run", "end", "count", "finish"}

\* nothing is buffered and no worker holds a task
Drained == Buffered = {} /\ \A w \in Workers : ~Holding(w)

\* when the pool is drained, every accepted task has been executed once, its
\* handle is ready, and completed_tasks_ is the number of accepted tasks
C1_DrainedCounts ==
    Drained =>
        /\ Ready = Accepted
        /\ \A t \in Accepted : tk[t].runs = 1
        /\ completed_tasks_ = Cardinality(Accepted)

\* C1: no task loss in HighPerformancePool. Every task accepted by submit
\* (from either of two submitting threads) or by submit_batch on a pool that
\* is not shut down is eventually executed and its completion handle becomes
\* ready; once the pool is drained, exactly the accepted tasks have a ready
\* handle and completed_tasks equals their number.
C1_NoTaskLoss ==
    /\ []C1_DrainedCounts
    /\ \A t \in Tasks : (t \in Accepted) ~> (t \in Ready)

\* all MaxTasks tasks were accepted and are done, at least one of them stolen
C1_Witness ==
    /\ Drained
    /\ Cardinality(Ready) = MaxTasks
    /\ completed_tasks_ = MaxTasks
    /\ stolen_tasks_ >= 1
    /\ \A s \in Submitters : sub[s].pc = "idle"

\* every worker thread has left worker_function
AllExited == \A w \in Workers : wk[w].pc = "exit"

\* no thread is inside submit / submit_batch
NoCallRunning == \A s \in Submitters : sub[s].pc = "idle"

\* the tasks that went into a buffer or queue when stop_ was already set: the
\* call that enqueued them ran concurrently with shutdown()
EnqueuedLate == {t \in Tasks : tk[t].queued = "late"}

\* C4: a submit / submit_batch of the work-stealing pool that interleaves
\* with shutdown() either throws or its tasks are executed: once all workers
\* have exited and every call has returned, no task that such a call put
\* into a worker buffer or into the overflow queue is still there.
C4_NoSilentDrop ==
    (PoolType = "HighPerformancePool" /\ AllExited /\ NoCallRunning)
       => Buffered \cap EnqueuedLate = {}

\* C5: when HighPerformancePool::wait_for_tasks() returns, with no
\* submission concurrent with the wait, every task submitted before the call
\* has finished (or was refused) and completed_tasks is the number of tasks
\* accepted; no worker still holds a task it has dequeued.
C5_WaitPostcondition ==
    (/\ PoolType = "HighPerformancePool"
     /\ main.pc = "wft_ret" /\ main.clean /\ n_tasks = main.upto)
    => /\ \A t \in 1 .. main.upto : t \in Ready \/ tk[t].handle = "rejected"
       /\ \A w \in Workers : ~Holding(w)
       /\ completed_tasks_ = Cardinality(Accepted)

\* the owner is inside wait_for_tasks() and has not been let go
Waiting == main.pc \in {"wft_check", "wft_pre", "wft_blocked"}

\* C35: liveness of HighPerformancePool::wait_for_tasks().  If every
\* submitted task eventually finishes and no further task is submitted, a
\* blocked wait_for_tasks() call eventually returns, for every interleaving
\* of the waiter's test of the predicate with the counter updates and the
\* completion notification of the last worker (no wake-up is lost).
C35_WaitReturns ==
    (PoolType = "HighPerformancePool" /\ Waiting) ~> (main.pc = "wft_ret")

\* completed_tasks_ counts every task whose body has run, raised or not,
\* except those whose worker is between the body and the counting
C6_CountsFailures ==
    completed_tasks_
      + Cardinality({w \in Workers : wk[w].pc \in {"end", "count", "finish"}})
      = Cardinality(Ready)

\* a raised failure is in the handle of the task that raised, and in no other
C6_FailureInHandleOnly ==
    \A t \in Ready : tk[t].handle = Body(t)

\* C6: a failing task body never ends a worker loop, in any of the three
\* pools: the failure is stored in that task's completion handle only, the
\* completed counter is incremented for it as for any other task, the step
\* after the body is the same as after a body that returned, and a worker
\* leaves its loop only when stop_ is set.
C6_FailureDoesNotStopWorker ==
    /\ [](C6_CountsFailures /\ C6_FailureInHandleOnly)
    /\ [](\A w \in Workers : wk[w].pc = "exit" => stop_)
    /\ [][\A w \in Workers :
            (wk[w].pc = "run" /\ wk'[w].pc # "run")
               => wk'[w].pc = (IF PoolType = "ThreadPool" THEN "finish" ELSE "end")]_vars

\* a worker whose earlier task raised runs a later task; the failure is in
\* the handle of the task that raised and was counted
C6_Witness ==
    \E w \in Workers :
        /\ wk[w].raised /\ wk[w].pc = "run" /\ wk[w].task = 3
        /\ tk[2].handle = "exception"
        /\ completed_tasks_ >= 1

\* a call of shutdown() after the first one has returned changes nothing
\* (but the count of calls kept for this formula)
C7_LaterCallsChangeNothing ==
    (main.calls >= 1 /\ main'.calls = main.calls + 1)
       => /\ main'.pc = main.pc
          /\ UNCHANGED <<PoolType, stop_, worker_queues_, overflow_tasks_, tasks_,
                         next_victim_, active_tasks_, completed_tasks_,
                         stolen_tasks_, wk, sub, n_tasks, tk>>

\* C7: shutdown() is idempotent and terminates, for each of the three pools.
\* The first call sets stop_ and returns only after every worker thread has
\* left its loop, holding no task; a later call changes nothing; and the
\* first call eventually returns (task bodies terminate, no worker stays
\* blocked on its condition once stop_ is set).
C7_ShutdownIdempotentTerminates ==
    /\ [](main.pc \in {"sd_notify", "sd_join"} => stop_)
    /\ [](main.calls >= 1 =>
            /\ stop_ /\ AllExited /\ active_tasks_ = 0
            /\ \A w \in Workers : ~Holding(w)
            /\ \A t \in Accepted : t \in Buffered \/ t \in Ready)
    /\ [][C7_LaterCallsChangeNothing]_vars
    /\ (main.pc = "sd_notify") ~> (main.calls >= 1)

\* the second shutdown() call has returned; the pool is a ThreadPool whose
\* workers ran tasks before they left
C7_Witness ==
    /\ PoolType = "ThreadPool"
    /\ main.calls = 2 /\ main.pc = "idle"
    /\ completed_tasks_ = MaxTasks

\* C8: when shutdown() returns, every task that went into a buffer or queue
\* while stop_ was still false has been executed, for ThreadPool and for
\* HighPerformancePool.
C8_ShutdownWaitsForTasks ==
    (PoolType \in {"ThreadPool", "HighPerformancePool"} /\ main.calls >= 1)
       => \A t \in Tasks : tk[t].queued = "early" => t \in Ready

\* C9, as claimed: stolen_tasks <= completed_tasks in every reachable state.
C9_StolenAtMostCompleted == stolen_tasks_ <= completed_tasks_

\* the workers that have counted a steal and not yet counted its completion
StolenInFlight ==
    {w \in Workers : wk[w].stolen /\ wk[w].pc \in {"begin", "run", "end", "count"}}

\* C9, amended: stolen_tasks exceeds completed_tasks by no more than the
\* number of stolen tasks that are counted stolen and not yet counted
\* completed (at most one per worker); stolen_tasks <= completed_tasks
\* whenever no worker holds such a task.
C9_StolenAccounting ==
    /\ stolen_tasks_ <= completed_tasks_ + Cardinality(StolenInFlight)
    /\ Drained => stolen_tasks_ <= completed_tasks_

\* two tasks were stolen and counted completed, a third is in flight
C9_Witness ==
    /\ PoolType = "HighPerformancePool"
    /\ stolen_tasks_ = 2 /\ completed_tasks_ = 1
    /\ Cardinality(StolenInFlight) = 1

\* worker w has, in this step, taken a task by a successful steal
StoleNow(w) == wk[w].pc = "steal" /\ wk'[w].pc = "count_stolen"

\* every step of the work-stealing pool: a successful steal takes the task
\* from the buffer of another worker and leaves the thief's own buffer alone;
\* stolen_tasks_ changes only by the +1 of a worker that has stolen and not
\* yet counted; a task from the worker's own pop or from the overflow queue
\* reaches its execution with stolen_tasks_ as it was
C27_StolenStep ==
    /\ \A w \in Workers :
          /\ StoleNow(w) =>
                /\ worker_queues_'[w] = worker_queues_[w]
                /\ \E v \in Workers \ {w} :
                      /\ worker_queues_'[v].bottom = worker_queues_[v].bottom + 1
                      /\ wk'[w].task =
                            worker_queues_[v].buffer[worker_queues_[v].bottom
                                                       % PoolCapacity]
                /\ stolen_tasks_' = stolen_tasks_
          /\ (wk[w].pc \in {"pop", "overflow"} /\ wk'[w].pc = "begin") =>
                stolen_tasks_' = stolen_tasks_
          /\ (wk[w].pc = "count_stolen" /\ wk'[w].pc # "count_stolen") =>
                stolen_tasks_' = stolen_tasks_ + 1
    /\ stolen_tasks_' # stolen_tasks_ =>
          /\ stolen_tasks_' = stolen_tasks_ + 1
          /\ \E w \in Workers : wk[w].pc = "count_stolen" /\ wk'[w].pc = "begin"

\* C27: exact stolen accounting.  stolen_tasks equals the number of tasks
\* that workers obtained by a successful steal from another worker's buffer
\* (it is incremented once for each, by the thief, right after the steal); a
\* task obtained from the worker's own pop or from the overflow queue never
\* increments it, and a worker never steals from its own buffer.
C27_ExactStolenAccounting ==
    /\ [][C27_StolenStep]_vars
    /\ [](stolen_tasks_ <= Cardinality({t \in Tasks : tk[t].queued # "no"}))

\* all tasks are done: one was stolen, the others came from the worker's own
\* buffer or from the overflow queue
C27_Witness ==
    /\ PoolType = "HighPerformancePool"
    /\ Drained /\ completed_tasks_ = MaxTasks
    /\ stolen_tasks_ = 1

\* the workers between the fetch_add and the fetch_sub of active_tasks_
ActiveWorkers ==
    {w \in Workers :
        \/ PoolType = "ThreadPool" /\ wk[w].pc \in {"run", "finish"}
        \/ PoolType # "ThreadPool" /\ wk[w].pc \in {"run", "end"}}

\* the active-task count is the number of workers inside a task: from 0 to N
C28_ActiveInRange ==
    /\ active_tasks_ = Cardinality(ActiveWorkers)
    /\ active_tasks_ \in 0 .. NumThreads

\* completed_tasks_ never decreases; it changes by one, in a step of a worker
\* whose task body has run (its handle holds a value or an exception)
C28_CompletedStep ==
    /\ completed_tasks_' >= completed_tasks_
    /\ completed_tasks_' # completed_tasks_ =>
          /\ completed_tasks_' = completed_tasks_ + 1
          /\ \E w \in Workers :
                /\ wk[w].pc \in {"count", "finish"}
                /\ wk'[w].pc # wk[w].pc
                /\ wk[w].task \in Ready
                /\ tk[wk[w].task].runs = 1
                /\ \A v \in Workers \ {w} : wk'[v] = wk[v]

\* C28: counter invariants of every pool.  In every reachable state the
\* active-task count is between 0 and N, the completed counter never
\* decreases, and it is incremented exactly once per executed task, by the
\* worker that executed it, after the task body returned or failed.
C28_CounterInvariants ==
    /\ []C28_ActiveInRange
    /\ []C6_CountsFailures
    /\ [][C28_CompletedStep]_vars

\* every worker is inside a task body, an earlier task was counted completed
C28_Witness ==
    /\ active_tasks_ = NumThreads
    /\ completed_tasks_ >= 1
    /\ \A w \in Workers : wk[w].pc = "run"

\* the tasks whose packaged_task and future were made by a call
Pending == {t \in Tasks : tk[t].handle = "pending"}

\* a call in progress can take its next step whatever the workers are doing,
\* and once every call has returned the tasks given to it are enqueued
C29_NeverBlocked ==
    /\ \A s \in Submitters : sub[s].pc # "idle" => ENABLED Submitter(s)
    /\ NoCallRunning => (Pending \subseteq Accepted /\ Pending \subseteq Buffered
                            \cup {wk[w].task : w \in Workers})

\* C29: submit and submit_batch never wait for a worker.  Even when every
\* worker is occupied by a task body that never returns, a submit or
\* submit_batch call on a running pool completes and leaves its tasks
\* enqueued; the only lock it can wait on is never held while a task body
\* runs.
C29_SubmitNeverWaits ==
    /\ []C29_NeverBlocked
    /\ \A s \in {"s1"} : (sub[s].pc # "idle") ~> (sub[s].pc = "idle")

\* every worker is inside a body that never returns while a call of submit or
\* submit_batch is in progress
C29_Witness ==
    /\ \A w \in Workers : wk[w].pc = "run"
    /\ \E s \in Submitters : sub[s].pc # "idle"

(***************************************************************************)
(* Order of the shared queue of FastThreadPool and ThreadPool.  Tasks are  *)
(* numbered under queue_mutex_ as they are enqueued, so the number of a    *)
(* task is its place in the order of enqueuing.                            *)
(***************************************************************************)
\* the tasks in the shared queue
InQueue == {tasks_[i] : i \in 1 .. Len(tasks_)}

\* the shared queue holds its tasks in the order of enqueuing
C32_QueueInOrder ==
    \A i, j \in 1 .. Len(tasks_) : i < j => tasks_[i] < tasks_[j]

\* a worker that takes a task takes the front of the queue, which is the
\* task enqueued first among those still queued
C32_DequeueOrder ==
    \A w \in Workers :
        (wk[w].task = NoTask /\ wk'[w].task # NoTask) =>
            /\ tasks_ # <<>>
            /\ wk'[w].task = Head(tasks_)
            /\ tasks_' = Tail(tasks_)
            /\ \A u \in InQueue : wk'[w].task <= u

\* a task body is entered after the bodies of the tasks enqueued before it,
\* but for those another worker holds and has not entered yet
C32_StartOrder ==
    \A w \in Workers : \A t \in Tasks :
        (wk[w].task = t /\ tk'[t].runs > tk[t].runs) =>
            \A u \in 1 .. t - 1 :
                tk[u].queued # "no" =>
                    \/ tk[u].runs >= 1
                    \/ \E v \in Workers \ {w} : wk[v].task = u

\* C32: the single-queue pools dequeue in FIFO order.  Tasks are taken from
\* the shared queue in the order in which their submit calls enqueued them
\* (a batch keeps its internal order), so a task starts executing after
\* every task submitted before it that no other worker holds: with a single
\* worker, in submission order.
C32_Fifo ==
    /\ []C32_QueueInOrder
    /\ [][C32_DequeueOrder]_vars
    /\ [][C32_StartOrder]_vars

\* three tasks were enqueued before any was taken; the first has run, a
\* worker holds the second and the third is still queued
C32_Witness ==
    /\ PoolType = "ThreadPool"
    /\ tk[1].runs = 1
    /\ \E w \in Workers : wk[w].task = 2 /\ wk[w].pc = "run"
    /\ tasks_ = <<3>>
    /\ \A v \in Workers : wk[v].task # 1

(***************************************************************************)
(* Exclusive ownership of a task in the work-stealing pool.                *)
(***************************************************************************)
\* in how many places task t is: slots of the worker buffers, places of the
\* overflow queue, workers that have dequeued it
Places(t) ==
    Cardinality(UNION {{<<w, i>> : i \in {j \in worker_queues_[w].bottom ..
                                                   worker_queues_[w].top - 1 :
                                              worker_queues_[w].buffer[j % PoolCapacity] = t}} :
                       w \in Workers})
    + Cardinality({i \in 1 .. Len(overflow_tasks_) : overflow_tasks_[i] = t})
    + Cardinality({w \in Workers : wk[w].task = t})

\* an accepted task is in one place until its worker is done with it, is
\* executed at most once, and its handle is ready exactly when it has run
C36_OnePlace ==
    \A t \in Tasks :
        /\ Places(t) <= 1
        /\ tk[t].runs <= 1
        /\ (tk[t].runs = 1) <=> (t \in Ready)
        /\ (tk[t].queued # "no" /\ tk[t].runs = 0) => Places(t) = 1

\* a worker that dequeues a task takes it out of the buffer or queue that
\* held it, by one of the three paths, and a ready handle is not set again
C36_DequeueStep ==
    /\ \A w \in Workers :
          (wk[w].task = NoTask /\ wk'[w].task # NoTask) =>
              /\ wk[w].pc \in {"pop", "steal", "overflow"}
              /\ wk'[w].task \in Buffered
              /\ wk'[w].task \notin Buffered'
              /\ \A v \in Workers \ {w} : wk'[v].task # wk'[w].task
    /\ \A t \in Ready : tk'[t] = tk[t]

\* C36: each task accepted by the work-stealing pool is executed at most
\* once across all workers and all three acquisition paths (own pop, steal,
\* overflow queue): a task is never held by a buffer and the overflow queue
\* at the same time, never dequeued by two workers, and its completion
\* handle is fulfilled exactly once.
C36_ExecutedOnce ==
    /\ []C36_OnePlace
    /\ [][C36_DequeueStep]_vars
    /\ []<>(\A t \in Accepted : tk[t].runs = 1 /\ t \in Ready)

\* three tasks have run once each: one was popped by its owner, one was
\* stolen, one went through the overflow queue
C36_Witness ==
    /\ \A t \in Tasks : tk[t].runs = 1 /\ t \in Ready
    /\ stolen_tasks_ = 1
    /\ completed_tasks_ = 2
    /\ \E w \in Workers : wk[w].path = "overflow" /\ wk[w].pc = "count"
    /\ Buffered = {}

(***************************************************************************)
(* Statistics of ThreadPool.  tasks_, active_tasks_ and completed_tasks_   *)
(* change under queue_mutex_ only, and get_statistics reads them under it, *)
(* so the snapshots are the values the three have between two steps.       *)
(***************************************************************************)
\* C37: statistics of ThreadPool never drift.  Every snapshot returned by
\* ThreadPool::get_statistics() satisfies pending_tasks + active_threads +
\* completed_tasks = number of tasks accepted by submit so far: a task is
\* dequeued and marked active in one step under the queue lock, unmarked
\* and counted completed in another.
C37_StatisticsNeverDrift ==
    PoolType = "ThreadPool" =>
        /\ get_statistics.pending_tasks + get_statistics.active_threads
              + get_statistics.completed_tasks = Cardinality(Accepted)
        /\ get_statistics.active_threads
              = Cardinality({w \in Workers : wk[w].pc \in {"run", "finish"}})
        /\ get_statistics.active_threads <= get_statistics.total_threads

\* a snapshot with a task pending, a task being executed and a task
\* completed
C37_Witness ==
    /\ PoolType = "ThreadPool"
    /\ get_statistics.pending_tasks = 1
    /\ get_statistics.active_threads = 1
    /\ get_statistics.completed_tasks = 1
    /\ Cardinality(Accepted) = 3

(***************************************************************************)
(* Progress of work stealing.                                              *)
(***************************************************************************)
\* the tasks in the buffer of worker w
InBufferOf(w) ==
    {worker_queues_[w].buffer[i % PoolCapacity] :
        i \in worker_queues_[w].bottom .. worker_queues_[w].top - 1}

\* worker w is inside the body of a long-running task
Occupied(w) == wk[w].pc = "run" /\ wk[w].task \in LongRunning

\* C33: work stealing makes progress.  In a work-stealing pool with N >= 2
\* workers, a task sitting in the buffer of a worker that is occupied by a
\* long-running task is eventually taken and executed by another worker
\* (under fair random victim selection); it does not wait for its owner.
C33_StealingProgress ==
    \A w \in Workers : \A t \in Tasks :
        (Occupied(w) /\ t \in InBufferOf(w))
           ~> (Occupied(w) /\ tk[t].runs = 1 /\ t \notin InBufferOf(w))

\* a worker is occupied by the long-running task while another worker has
\* stolen a task from its buffer and executed it
C33_Witness ==
    \E w \in Workers : \E t \in Tasks :
        /\ Occupied(w)
        /\ tk[t].runs = 1 /\ tk[t].queued # "no"
        /\ stolen_tasks_ >= 1
        /\ \E v \in Workers \ {w} : wk[v].stolen /\ wk[v].task = t

(***************************************************************************)
(* Claims about ThreadRegistry.                                            *)
(***************************************************************************)
\* the call just made was a registration of a thread id that had an entry:
\* nothing stored changed, the count is the same, no callback was invoked
C34_DuplicateStep ==
    (/\ reg_log'.calls # reg_log.calls
     /\ reg_log'.op = "register"
     /\ threads_[reg_log'.tid].present)
    => /\ threads_' = threads_
       /\ Cardinality({tid \in Tids : threads_'[tid].present}) = count
       /\ reg_log'.registered = reg_log.registered
       /\ reg_log'.unregistered = reg_log.unregistered

\* after unregister_current_thread the id is absent, and a registration of
\* an absent id stores what it was given
C34_AnewStep ==
    /\ (reg_log'.calls # reg_log.calls /\ reg_log'.op = "unregister")
          => ~threads_'[reg_log'.tid].present
    /\ (/\ reg_log'.calls # reg_log.calls
        /\ reg_log'.op = "register"
        /\ ~threads_[reg_log'.tid].present)
       => /\ threads_'[reg_log'.tid] = reg_log'.entry
          /\ reg_log'.registered = reg_log.registered + (IF onRegister_ THEN 1 ELSE 0)

\* C34: duplicate registration in ThreadRegistry is a no-op.  Registering a
\* thread id that is already registered leaves the stored entry (name,
\* component tag, control block) as the first registration set it, does not
\* change the number of entries and does not fire the on-register callback;
\* after unregister_current_thread the id is absent and can be registered
\* anew.
C34_DuplicateRegistrationNoOp ==
    /\ [][C34_DuplicateStep]_vars
    /\ [][C34_AnewStep]_vars

\* with the on-register callback set, a thread id registered under the first
\* name was registered again under the second: the entry is the first one
\* and the callback was invoked once
C34_Witness ==
    /\ onRegister_
    /\ reg_log.op = "register" /\ reg_log.tid = 1
    /\ reg_log.entry = Entry("second-name", "second-comp", 1)
    /\ threads_[1] = Entry("first-name", "first-comp", 0)
    /\ reg_log.registered = 1
    /\ count = 1

(***************************************************************************)
(* Claims about the scheduler.                                             *)
(***************************************************************************)
\* once cancel() has returned for an entry still in the collection, the
\* entry is not submitted to the pool and its task does not run
C10_NoSubmitAfterCancel ==
    \A id \in Handles :
        handles[id].early =>
            /\ handles'[id].submitted = handles[id].submitted
            /\ handles'[id].runs = handles[id].runs

\* C10: if cancel() on a handle returns before the timer thread removes the
\* entry from the collection, the entry is never submitted to the pool and
\* its task body never executes, whatever its deadline: no step submits or
\* runs it after the cancel, and a one-shot entry cancelled so has been
\* submitted and run zero times.
C10_CancelBeforeFiring ==
    /\ [][C10_NoSubmitAfterCancel]_vars
    /\ [](\A id \in Handles :
            (handles[id].early /\ handles[id].kind = "once")
               => handles[id].submitted = 0 /\ handles[id].runs = 0)

\* the timer thread has extracted and dropped an entry that was due when it
\* was scheduled and was cancelled while in the collection
C10_Witness ==
    \E id \in Handles :
        /\ handles[id].early /\ handles[id].kind = "once"
        /\ id \notin Scheduled
        /\ timer.pc = "top" /\ timer.info = NoInfo
        /\ handles[id].submitted = 0

\* a task body is entered only by a closure that found the flag unset
C11_StartOnlyIfNotCancelled ==
    \A id \in Handles :
        handles'[id].runs > handles[id].runs => ~handles[id].cancelled

\* cancel() does not touch a body that has begun, and the step of a worker
\* that is in a body is the return of that body
C11_BegunBodyCompletes ==
    /\ (\E id \in Handles : handles'[id].cancelled /\ ~handles[id].cancelled)
          => pool_' = pool_
    /\ (pool_.running # 0 /\ pool_' # pool_ /\ pool_'.running # pool_.running)
          => pool_'.running = 0 /\ handles' = handles

\* C11: cancellation racing with the hand-off.  No task body starts after
\* cancel() has returned, unless the closure had already passed the second
\* cancellation test made inside the pool: a cancel() that returns after the
\* timer thread submitted the entry and before the worker calls the closure
\* keeps the body from running, and a body that has begun runs to its end.
C11_CancelRace ==
    /\ [][C11_StartOnlyIfNotCancelled]_vars
    /\ [][C11_BegunBodyCompletes]_vars
    /\ [](\A id \in Handles : handles[id].skipped => handles[id].cancelled)

\* a one-shot entry was extracted and submitted by the timer thread, then
\* cancelled, and the worker dropped its closure without running the body
C11_Witness ==
    \E id \in Handles :
        /\ handles[id].kind = "once"
        /\ handles[id].cancelled /\ ~handles[id].early
        /\ handles[id].submitted = 1 /\ handles[id].skipped
        /\ handles[id].runs = 0

\* the deadline carried by the entry of a periodic handle, in the collection
\* or in the hands of the timer thread, is d0 + k * interval, k the number
\* of firings handed to the pool so far (the one being rescheduled excluded)
C12_DeadlineOfFiring ==
    /\ \A i \in 1 .. Len(scheduled_tasks_) :
          LET e == scheduled_tasks_[i]
          IN  e.periodic =>
                 e.next_run = handles[e.id].d0 + handles[e.id].submitted * e.interval
    /\ (timer.info.periodic /\ timer.pc \in {"check", "submit"}) =>
          timer.info.next_run =
             handles[timer.info.id].d0
                + handles[timer.info.id].submitted * timer.info.interval
    /\ (timer.info.periodic /\ timer.pc = "resched") =>
          timer.info.next_run =
             handles[timer.info.id].d0
                + (handles[timer.info.id].submitted - 1) * timer.info.interval

\* every hand-off to the pool is the hand-off of the next firing in turn, at
\* or after its deadline
C12_HandOffInTurn ==
    \A id \in Handles :
        handles'[id].submitted # handles[id].submitted =>
            /\ handles'[id].submitted = handles[id].submitted + 1
            /\ timer.pc = "submit" /\ timer.info.id = id
            /\ timer.info.next_run <= now

\* C12: fixed-rate periodic scheduling.  For a periodic entry with first
\* deadline d0 = now + initial_delay and interval I, the deadline of its k-th
\* firing is d0 + k * I whenever the earlier firings were handed over; a late
\* timer thread hands the overdue firings over one after another, none
\* skipped and no two merged.
C12_FixedRate ==
    /\ []C12_DeadlineOfFiring
    /\ [][C12_HandOffInTurn]_vars

\* the timer thread is late by more than the interval and has handed over
\* the second firing of a periodic entry, whose deadline has long passed
C12_Witness ==
    /\ timer.pc = "resched" /\ timer.info.periodic
    /\ handles[timer.info.id].submitted = 2
    /\ now > timer.info.next_run + timer.info.interval
    /\ ~handles[timer.info.id].cancelled

\* the one-shot handles given out so far
OneShots == {id \in Handles : handles[id].kind = "once"}

\* a one-shot entry is handed over at most once and is out of the collection
\* once it has been handed over
C13_AtMostOnce ==
    \A id \in OneShots :
        /\ handles[id].submitted <= 1
        /\ handles[id].submitted = 1 => id \notin Scheduled
        /\ Cardinality({i \in 1 .. Len(scheduled_tasks_) : scheduled_tasks_[i].id = id}) <= 1

\* a one-shot entry is handed over by the timer thread, not before its
\* next_run time, and an entry that has left the collection does not return
C13_FiredWhenDue ==
    \A id \in OneShots :
        /\ handles'[id].submitted # handles[id].submitted =>
              /\ timer.pc = "submit" /\ timer.info.id = id
              /\ timer.info.next_run <= now
              /\ id \notin Scheduled
        /\ id \notin Scheduled => id \notin Scheduled'

\* C13: life of a one-shot entry.  An entry made by schedule_after /
\* schedule_at and never cancelled goes pending -> fired -> terminal: it is
\* handed to the pool exactly once (at most once, and eventually once while
\* the scheduler runs), never before its next_run time, it is removed from
\* the collection when fired and never inserted again.
C13_OneShotLifecycle ==
    /\ []C13_AtMostOnce
    /\ [][C13_FiredWhenDue]_vars
    /\ \A id \in Handles :
          (handles[id].kind = "once")
             ~> (handles[id].cancelled \/ handles[id].submitted = 1)

\* a one-shot entry with a deadline in the future has been handed over, is
\* out of the collection, and its task has run
C13_Witness ==
    \E id \in OneShots :
        /\ ~handles[id].cancelled
        /\ handles[id].submitted = 1 /\ handles[id].runs = 1
        /\ id \notin Scheduled /\ timer.info.id # id
        /\ now = MaxTime

\* C14: early wake on insertion.  While the timer thread sleeps until the
\* deadline D of the entry that was the earliest, an entry inserted with a
\* deadline D' < D wakes it: whenever an entry of the collection is due, the
\* sleep of the timer thread is over (it is not held until D).
C14_EarlyWake ==
    (/\ timer.pc = "wait_until"
     /\ ~scheduler_stop_
     /\ scheduled_tasks_ # <<>>
     /\ scheduled_tasks_[1].next_run <= now
     /\ ~handles[scheduled_tasks_[1].id].cancelled)
    => now >= timer.deadline

\* once shutdown() has returned nothing is handed to the pool any more, and
\* a later call of shutdown() changes nothing (but the count of calls)
C15_AfterShutdown ==
    closer.calls >= 1 =>
        /\ \A id \in Handles : handles'[id].submitted = handles[id].submitted
        /\ closer'.calls # closer.calls =>
              /\ closer'.pc = "idle" /\ closer.pc = "idle"
              /\ UNCHANGED <<now, scheduled_tasks_, next_task_id_, scheduler_stop_,
                             handles, timer, pool_>>

\* C15: order of the scheduler's shutdown.  The timer thread has terminated
\* before the shutdown of the owned pool begins, so it never submits to a
\* stopped pool; after shutdown() has returned no entry still in the
\* collection is handed to the pool; a second call is a no-op; and
\* shutdown() returns, whether the timer thread was waiting on an empty
\* collection or sleeping until a deadline.
C15_ShutdownOrdering ==
    /\ [](pool_.stop => timer.pc = "done")
    /\ [](timer.pc = "submit" => ~pool_.stop)
    /\ [](closer.calls >= 1 =>
             scheduler_stop_ /\ pool_.stop /\ pool_.tasks = <<>> /\ pool_.running = 0)
    /\ [][C15_AfterShutdown]_vars
    /\ (closer.pc = "notify") ~> (closer.calls >= 1)

\* shutdown() and a second call have returned; an entry with a deadline in
\* the future is still in the collection and was never handed over
C15_Witness ==
    /\ closer.calls = 2 /\ closer.pc = "idle"
    /\ timer.pc = "done"
    /\ \E i \in 1 .. Len(scheduled_tasks_) :
          /\ scheduled_tasks_[i].next_run > now
          /\ handles[scheduled_tasks_[i].id].submitted = 0
          /\ ~handles[scheduled_tasks_[i].id].cancelled

\* no task runs twice; when the queue is empty and no worker holds a task,
\* every accepted task has run once and its handle is ready
C16_ExecutedOnce ==
    /\ \A t \in Tasks : tk[t].runs <= 1
    /\ \A t \in Ready : tk[t].runs = 1
    /\ Drained =>
          /\ Ready = Accepted
          /\ completed_tasks_ = Cardinality(Accepted)

\* C16: no task loss and no deadlock in the single-queue pools.  Every task
\* of a batch accepted by FastThreadPool::submit_batch, and every task
\* accepted by ThreadPool::submit or FastThreadPool::submit, on a running
\* pool, is executed exactly once and its completion handle becomes ready,
\* under every interleaving of two submitters and the workers.
C16_SingleQueueNoLoss ==
    /\ []C16_ExecutedOnce
    /\ \A t \in Tasks : (t \in Accepted) ~> (t \in Ready /\ tk[t].runs = 1)

\* a FastThreadPool has run a batch and a single task, all handles ready
C16_Witness ==
    /\ PoolType = "FastThreadPool"
    /\ Drained
    /\ Cardinality(Ready) = MaxTasks
    /\ completed_tasks_ = MaxTasks
    /\ \A s \in Submitters : sub[s].pc = "idle"

(***************************************************************************)
(* Claims about parallel_for_each.                                         *)
(***************************************************************************)
\* the chunks submitted so far are [0, c1), [c1, c2), ... up to the loop
\* position: no element between two chunks, none in two
C17_ChunksPartition ==
    /\ \A i \in 1 .. Len(pfe.futures) :
          /\ pfe.futures[i].first < pfe.futures[i].last
          /\ pfe.futures[i].first = (IF i = 1 THEN 0 ELSE pfe.futures[i - 1].last)
    /\ pfe.it = (IF pfe.futures = <<>> THEN 0 ELSE pfe.futures[Len(pfe.futures)].last)
    /\ pfe.it <= pfe.total
    /\ pfe.pc \in {"wait", "done"} => pfe.it = pfe.total

C26_ChunkBound ==
    pfe.type = "HighPerformancePool" =>
        /\ Len(pfe.futures) <= 4 * pfe.n
        /\ C17_ChunksPartition

(***************************************************************************)
(* Order of delivery of the stand-alone deque.  The owner pushes the tasks *)
(* 1, 2, ... in this order, so a greater number is a later push.           *)
(***************************************************************************)
\* the tasks pushed and not yet returned by a pop or a steal
DequeRemaining == {t \in DOMAIN d_count : d_count[t] = 0}

\* C18: order of WorkStealingDeque.  A successful pop returns the most
\* recently pushed task not yet removed (every task still in the deque was
\* pushed before it), and a successful steal returns the oldest one (every
\* task still in the deque was pushed after it), wrap-around of the ring
\* indices included.
C18_DequeOrder ==
    /\ (d_res.op = "pop" /\ d_res.ok) =>
          /\ d_res.item \in DOMAIN d_count
          /\ \A t \in DequeRemaining : t < d_res.item
          /\ \A t \in DOMAIN d_count : t > d_res.item => d_count[t] = 1
    /\ (d_res.op = "steal" /\ d_res.ok) =>
          /\ d_res.item \in DOMAIN d_count
          /\ \A t \in DequeRemaining : t > d_res.item
          /\ \A t \in DOMAIN d_count : t < d_res.item => d_count[t] = 1

\* a pop has returned the newest of two tasks held in a buffer whose indices
\* have wrapped around; the older one is still in the deque
C18_Witness ==
    /\ d_res.op = "pop" /\ d_res.ok
    /\ DequeRemaining # {}
    /\ dq.top >= dq.capacity /\ dq.bottom > 0

\* the pool has one queue under one mutex
SingleQueue == PoolType \in {"FastThreadPool", "ThreadPool"}

\* the tasks whose submit / submit_batch threw
Refused == {t \in Tasks : tk[t].handle = "rejected"}

\* a call that saw stop_ enqueued nothing: a refused task was never in the
\* queue and never ran, and nothing went into the queue with stop_ set
C20_RefusedNotEnqueued ==
    /\ Refused \cap Accepted = {}
    /\ Refused \cap Buffered = {}
    /\ \A t \in Refused : tk[t].runs = 0
    /\ EnqueuedLate = {}

\* a worker has returned only with stop_ set and the queue empty, and when
\* the last one has returned every accepted task has been executed
C20_ExecutedBeforeExit ==
    /\ (\E w \in Workers : wk[w].pc = "exit") => (stop_ /\ tasks_ = <<>>)
    /\ AllExited => (Accepted = Ready /\ \A t \in Accepted : tk[t].runs = 1)

\* C20: submit versus shutdown in ThreadPool and FastThreadPool.  A submit
\* or submit_batch that observes the stop flag throws and enqueues nothing
\* (a failed batch enqueues none of its tasks); an accepted task is executed
\* before the workers exit, for every interleaving with shutdown(), and no
\* accepted task is left in the queue after the last worker has returned.
C20_SubmitVersusShutdown ==
    SingleQueue => (C20_RefusedNotEnqueued /\ C20_ExecutedBeforeExit)

\* shutdown() has returned on a single-queue pool with a task that was
\* queued when stop_ was set and was executed, and a later submission refused
C20_Witness ==
    /\ SingleQueue /\ AllExited /\ main.calls >= 1
    /\ Refused # {}
    /\ \E t \in Accepted : tk[t].runs = 1 /\ t \in Ready

(***************************************************************************)
(* Failed operations of the stand-alone deque.                             *)
(***************************************************************************)
\* in the state reached, whatever task the caller passes: on a full deque
\* push returns false and the deque it leaves is the one it found; on an
\* empty deque pop and steal return false and leave the deque and the
\* caller's output task as they were
C22_FailsWhenFullOrEmpty ==
    \A item \in NoTask .. MaxPush :
        /\ dq.top - dq.bottom >= Capacity =>
              push(dq, item) = [ok |-> FALSE, dq |-> dq]
        /\ dq.top <= dq.bottom =>
              /\ pop(dq, item) = [ok |-> FALSE, item |-> item, dq |-> dq]
              /\ steal(dq, item) = [ok |-> FALSE, item |-> item, dq |-> dq]

\* a call that returned false has changed neither top, bottom nor a slot, and
\* its output task is the one the caller passed
C22_FailedStep ==
    ~d_res'.ok =>
        /\ dq' = dq
        /\ d_res'.op \in {"pop", "steal"} => d_res'.item = NoTask
        /\ d_res'.op = "push" => dq.top - dq.bottom >= Capacity
        /\ d_res'.op \in {"pop", "steal"} => dq.top <= dq.bottom

\* C22: failed deque operations change nothing.  push on a full
\* WorkStealingDeque returns false and leaves top, bottom and all stored
\* tasks unchanged; pop and steal on an empty deque return false and leave
\* top, bottom and the caller's output task unchanged.
C22_FailedOpsChangeNothing ==
    /\ []C22_FailsWhenFullOrEmpty
    /\ [][C22_FailedStep]_vars

\* a push has just failed on a full deque whose indices have moved on
C22_Witness ==
    /\ d_res.op = "push" /\ ~d_res.ok
    /\ dq.top - dq.bottom = Capacity
    /\ dq.bottom >= 1

\* C23: size(), which reads top and then bottom without taking the lock,
\* returns a value in 0 .. capacity for every interleaving with concurrent
\* push, pop and steal: never a negative or underflowed count, never more
\* than the capacity; empty() is true exactly when that value is 0.
C23_SizeInRange ==
    (d_size.pc = "idle" /\ d_size.call # "none") =>
        /\ d_size.value \in 0 .. Capacity
        /\ d_size.ret = (d_size.value = 0)

\* empty() returned true after loading a bottom_ that had passed the top_ it
\* had loaded before
C23_Witness ==
    /\ d_size.pc = "idle" /\ d_size.call = "empty"
    /\ d_size.b > d_size.t
    /\ d_size.value = 0 /\ d_size.ret

(***************************************************************************)
(* Claims about the placement of submitted tasks.                          *)
(***************************************************************************)
\* the indices of the worker buffers of the pool
QueueIndices == 0 .. place.num_threads_ - 1

\* C24: the overflow queue is used only when all per-worker buffers are
\* full.  For every worker count N, a submit that has put its task into the
\* overflow queue has found every worker buffer full when it tried it: first
\* the round-robin preferred buffer, then the others.
C24_OverflowOnlyWhenAllFull ==
    (/\ place.call.kind = "submit" /\ place.call.pc = "idle"
     /\ place.call.placed # <<>> /\ place.call.placed[1].at = -1)
    => place.call.placed[1].tried = QueueIndices

\* C25: submit_batch distributes the tasks of one batch round-robin across
\* the worker buffers: of two consecutive tasks that each went into the
\* first buffer tried for it (no push failed), the second is in the buffer
\* that follows, modulo N, the buffer of the first.
C25_BatchRoundRobin ==
    place.call.kind = "batch" =>
        \A i \in 1 .. Len(place.call.placed) - 1 :
            (/\ place.call.placed[i].at >= 0 /\ place.call.placed[i].tried = {}
             /\ place.call.placed[i + 1].at >= 0
             /\ place.call.placed[i + 1].tried = {})
            => place.call.placed[i + 1].at =
                  (place.call.placed[i].at + 1) % place.num_threads_

\* the entry id is in the collection with a time point the clock reaches
DueInTime(id) ==
    \E i \in 1 .. Len(scheduled_tasks_) :
        scheduled_tasks_[i].id = id /\ scheduled_tasks_[i].next_run <= MaxTime

(***************************************************************************)
(* Order of the firings.                                                   *)
(***************************************************************************)
\* the collection is in the order of its keys, and an entry the timer thread
\* has extracted and not yet handed over is not later than any entry in it
C38_EarliestExtracted ==
    /\ \A i, j \in 1 .. Len(scheduled_tasks_) :
          i < j => scheduled_tasks_[i].next_run <= scheduled_tasks_[j].next_run
    /\ timer.pc \in {"check", "submit"} =>
          \A i \in 1 .. Len(scheduled_tasks_) :
              timer.info.next_run <= scheduled_tasks_[i].next_run

\* at a hand-off no entry of the collection has an earlier next_run than the
\* entry handed over
C38_HandOffStep ==
    \A id \in Handles :
        handles'[id].submitted # handles[id].submitted =>
            /\ timer.info.id = id
            /\ \A i \in 1 .. Len(scheduled_tasks_) :
                  timer.info.next_run <= scheduled_tasks_[i].next_run
            /\ scheduled_tasks_' = scheduled_tasks_

\* C38: the timer thread fires in deadline order.  Whenever it hands an entry
\* to the pool, no other entry with a strictly earlier next_run is in the
\* collection at that moment, also when entries are inserted while it sleeps
\* and when periodic entries are requeued.
C38_DeadlineOrder ==
    /\ []C38_EarliestExtracted
    /\ [][C38_HandOffStep]_vars

\* a periodic entry, requeued once, is handed over for the second time while
\* a one-shot entry with a later time point is in the collection
C38_Witness ==
    /\ timer.pc = "resched" /\ timer.info.periodic
    /\ handles[timer.info.id].submitted = 2
    /\ \E i \in 1 .. Len(scheduled_tasks_) :
          /\ ~scheduled_tasks_[i].periodic
          /\ scheduled_tasks_[i].next_run > timer.info.next_run
          /\ scheduled_tasks_[i].next_run <= now

(***************************************************************************)
(* What cancel() changes.                                                  *)
(***************************************************************************)
\* a call of cancel() on handle id sets the flag of id and changes nothing
\* else: not the collection, not the timer thread, not the pool, no other
\* handle
C40_CancelStep ==
    \A id \in Handles :
        handles'[id].cancels # handles[id].cancels =>
            /\ handles'[id].cancelled
            /\ UNCHANGED <<now, scheduled_tasks_, next_task_id_, scheduler_stop_,
                           timer, pool_, closer>>
            /\ \A other \in Handles \ {id} : handles'[other] = handles[other]
            /\ \A f \in {"kind", "submitted", "runs", "skipped", "d0", "refused"} :
                  handles'[id][f] = handles[id][f]

\* a cancelled entry leaves the collection only when the timer thread
\* extracts it at or after its next_run, and the timer thread then discards
\* it
C40_DiscardStep ==
    /\ \A id \in Handles :
          (handles[id].cancelled /\ id \in Scheduled /\ id \notin Scheduled') =>
              /\ timer'.pc = "check" /\ timer'.info.id = id
              /\ timer'.info.next_run <= now
              /\ scheduled_count' = scheduled_count - 1
    /\ (timer.pc = "check" /\ handles[timer.info.id].cancelled /\ timer' # timer) =>
          /\ timer'.pc = "top" /\ timer'.info = NoInfo
          /\ UNCHANGED <<scheduled_tasks_, pool_, handles>>

\* a timer thread that sleeps until a deadline not yet reached takes no step,
\* whatever flags are set
C40_SleepsOn ==
    (timer.pc = "wait_until" /\ now < timer.deadline /\ ~scheduler_stop_)
       => ~ENABLED Timer

\* C40: cancel() touches only the shared flag.  It removes nothing from the
\* time-ordered collection and does not wake the timer thread, so
\* scheduled_count() still counts a cancelled entry until the timer thread
\* reaches that entry's deadline and discards it; every other entry and the
\* pool are unchanged by cancel().
C40_CancelTouchesOnlyFlag ==
    /\ [][C40_CancelStep]_vars
    /\ [][C40_DiscardStep]_vars
    /\ []C40_SleepsOn

\* the timer thread sleeps until the deadline of an entry that was cancelled
\* meanwhile; scheduled_count() still counts the entry
C40_Witness ==
    /\ timer.pc = "wait_until" /\ now < timer.deadline /\ ~scheduler_stop_
    /\ scheduled_count = 2
    /\ handles[scheduled_tasks_[1].id].cancelled
    /\ handles[scheduled_tasks_[1].id].early
    /\ scheduled_tasks_[1].next_run = timer.deadline

(***************************************************************************)
(* Starvation of due entries.                                              *)
(***************************************************************************)
\* the entry id is in the collection and its deadline has passed
Overdue(id) ==
    \E i \in 1 .. Len(scheduled_tasks_) :
        scheduled_tasks_[i].id = id /\ scheduled_tasks_[i].next_run <= now

\* the timer thread has just handed entry id to the pool
HandedOver(id) == timer.pc = "resched" /\ timer.info.id = id

\* C39: no starvation of due entries.  While the scheduler is running, every
\* non-cancelled entry whose deadline has passed is eventually handed to the
\* pool, whatever other entries are scheduled, including periodic entries of
\* any interval (zero included) and overdue periodic entries that are
\* catching up.  (A timer thread asleep until a deadline beyond the time the
\* model covers is left aside.)
C39_NoStarvation ==
    \A id \in Handles :
        (/\ Overdue(id) /\ ~handles[id].cancelled
         /\ timer.pc = "wait_until" => timer.deadline <= MaxTime)
           ~> (HandedOver(id) \/ handles[id].cancelled)

(***************************************************************************)
(* Cancelling a periodic entry.                                            *)
(***************************************************************************)
\* the periodic handles given out so far
Periodics == {id \in Handles : handles[id].kind = "periodic"}

\* a cancelled periodic entry is handed over only if the timer thread held
\* it (out of the collection, past the test of the flag) when cancel() was
\* called; once it is neither in the collection nor held by the timer
\* thread it is not handed over and does not come back
C31_NoLaterFiring ==
    \A id \in Periodics :
        handles[id].cancelled =>
            /\ handles'[id].submitted # handles[id].submitted =>
                  /\ ~handles[id].early
                  /\ timer.pc = "submit" /\ timer.info.id = id
                  /\ id \notin Scheduled
            /\ id \notin Scheduled => id \notin Scheduled'
            /\ (id \notin Scheduled /\ timer.info.id # id) =>
                  /\ handles'[id].submitted = handles[id].submitted
                  /\ timer'.info.id # id

C30_TimerAliveEntryDropped ==
    /\ timer.pc # "done"
    /\ \A id \in Handles :
          handles[id].refused =>
              /\ pool_.stop
              /\ id \notin Scheduled
              /\ timer.info.id # id

\* with the pool stopped nothing is handed to it, and an entry it refused
\* stays refused
C30_NothingSubmitted ==
    /\ pool_.stop =>
          /\ pool_'.tasks = pool_.tasks \/ pool_'.tasks = Tail(pool_.tasks)
          /\ \A id \in Handles : handles'[id].submitted = handles[id].submitted
    /\ \A id \in Handles : handles[id].refused => handles'[id].refused

\* C30: a submission failure does not crash the timer thread.  If the pool
\* the scheduler owns has been shut down (directly, through
\* thread_pool().shutdown()) while the scheduler still runs, the timer thread
\* swallows the failure of pool submit, keeps running and keeps serving
\* later entries; the entry whose submission failed is dropped and, if
\* periodic, is not requeued.
C30_SubmitFailureSwallowed ==
    /\ []C30_TimerAliveEntryDropped
    /\ [][C30_NothingSubmitted]_vars
    /\ \A id \in Handles :
          (/\ pool_.stop /\ DueInTime(id)
           /\ timer.pc = "wait_until" => timer.deadline <= MaxTime)
             ~> handles[id].refused

\* a periodic entry that had fired was dropped when the pool refused it, and
\* the timer thread went on to a later entry, refused as well
C30_Witness ==
    /\ timer.pc # "done"
    /\ \E id \in Handles :
          /\ handles[id].kind = "periodic" /\ handles[id].submitted >= 1
          /\ handles[id].refused
    /\ \A id \in Handles : handles[id].refused

(***************************************************************************)
(* Claims about the handle.                                                *)
(***************************************************************************)
\* the flag never returns to false, and a cancel() after the first changes
\* nothing (but the count of calls)
C19_CancelSteps ==
    \A id \in Handles :
        /\ is_cancelled(id) => handles'[id].cancelled
        /\ (is_cancelled(id) /\ handles'[id].cancels # handles[id].cancels) =>
              /\ handles' = [handles EXCEPT ![id].cancels = @ + 1]
              /\ UNCHANGED <<now, scheduled_tasks_, next_task_id_, scheduler_stop_,
                             timer, pool_, closer>>

\* C19: cancel is thread-safe and idempotent.  Called once, several times
\* or from several threads, on a handle or a copy, it has the effect of one
\* call: afterwards is_cancelled() is true on every copy and the flag never
\* returns to false, also after the timer thread has consumed the entry.
C19_CancelIdempotent ==
    /\ [](\A id \in Handles : handles[id].cancels >= 1 <=> is_cancelled(id))
    /\ [][C19_CancelSteps]_vars

\* cancel() was called a second time on a handle whose entry the timer
\* thread had consumed and handed to the pool
C19_Witness ==
    \E id \in Handles :
        /\ handles[id].cancels = MaxCancels /\ is_cancelled(id)
        /\ handles[id].submitted = 1 /\ id \notin Scheduled

(***************************************************************************)
(* Claims about the error-reporting wrappers.                              *)
(***************************************************************************)
RECURSIVE SumCounted(_)
SumCounted(n) == IF n = 0 THEN 0 ELSE wrapped[n].counted + SumCounted(n - 1)

\* C21: for every task submitted through a *WithErrors pool whose body
\* fails, error_count increases by exactly one and every registered callback
\* is invoked exactly once, in registration order, before the completion
\* handle becomes ready; the same failure is then delivered unchanged
\* through the handle; a callback that throws does not prevent the remaining
\* callbacks from running; a task that succeeds invokes no callback and
\* does not change error_count.
C21_ErrorReporting ==
    /\ error_count_ = SumCounted(MaxErrTasks)
    /\ \A t \in ErrTasks :
          /\ wrapped[t].handle = "exception" =>
                /\ wrapped[t].body = "exception"
                /\ wrapped[t].counted = 1
                /\ wrapped[t].cause = t
                /\ Len(wrapped[t].calls) = wrapped[t].seen
                /\ \A i \in 1 .. Len(wrapped[t].calls) :
                      wrapped[t].calls[i].cb = i /\ wrapped[t].calls[i].cause = t
          /\ wrapped[t].handle = "value" =>
                /\ wrapped[t].body = "value"
                /\ wrapped[t].counted = 0
                /\ wrapped[t].calls = <<>>
          /\ wrapped[t].handle \in {"none", "pending"} =>
                /\ wrapped[t].counted <= 1
                /\ Len(wrapped[t].calls) <= wrapped[t].seen

\* a failure was delivered after two callbacks ran, the first of which threw,
\* and another task succeeded
C21_Witness ==
    /\ \E t \in ErrTasks :
          /\ wrapped[t].handle = "exception"
          /\ Len(wrapped[t].calls) = 2
          /\ wrapped[t].calls[1].kind = "throws"
    /\ \E t \in ErrTasks : wrapped[t].handle = "value"
    /\ error_count_ >= 1

=============================================================================
